---- MODULE Spec2Model ----
(***************************************************************************)
(* Reliable data transfer over an unreliable datagram channel:             *)
(*   variant A  fase1/rdt20.py  stop-and-wait, no sequence number          *)
(*   variant B  fase1/rdt21.py  stop-and-wait, alternating bit             *)
(*   variant C  fase1/rdt30.py  stop-and-wait, timer, 8-bit sequence       *)
(*   variant D  fase2/gbn.py    Go-Back-N, 32-bit sequence                 *)
(* Packets are the byte strings the code puts on the wire; the channel is  *)
(* utils/simulator.py (loss, XOR 0xFF corruption, delay and reordering).   *)
(***************************************************************************)
EXTENDS Integers, Sequences, FiniteSets, Bags, TLC

(***************************************************************************)
(* Bounds of the model.                                                    *)
(***************************************************************************)
\* longest list of payloads the application passes to send: variants A, B
MaxMsgs == 3
\* longest list of payloads the application passes to send: variant C
MaxMsgsTimed == 2
\* longest list of payloads the application passes to send: variant D
MaxMsgsGBN == 1
\* most calls of GBNSender.send in one run that raise an exception after
\* they transmitted their packet and are followed by another call
MaxRaised == 1
\* most datagrams in flight in one direction at one time
MaxInFlight == 2
\* most byte positions the channel draws when it corrupts one packet
MaxFlips == 2
\* most packets the channel loses or corrupts in one run
MaxFaults == 2
\* longest payload of a packet given to the codec
MaxPayloadLen == 2
\* the bytes of these payloads
CodecBytes == {0, 5, 250}
\* most iterations of the loop of _corrupt_packet: random.randint(1, 5)
MaxCorruptions == 5
\* most calls of RDT20Remetente.enviar_dados in one run
MaxCalls == 3
\* most SYN packets one call of SimpleTCPSocket.connect sends
MaxSyns == 3
\* N of GBNSender.__init__ when the caller gives none
DefaultN == 4
\* the window sizes N a GBNSender is constructed with
WindowSizes == {1, DefaultN}

\* payloads the application sends
Payloads == {<<5>>, <<128>>}

\* sequence number both ends hold when the modelled run starts: 0 after
\* construction, n after n payloads were transferred over a quiet channel
StartSeqs == {0, 127}

(***************************************************************************)
(* Packet kinds (rdt20.py 15-17, rdt21.py 16-18, rdt30.py 17-19,           *)
(* gbn.py 15-17).                                                          *)
(***************************************************************************)
TYPE_DATA == 0
TYPE_ACK == 1
TYPE_NAK == 2

\* the packet layouts and the size of the fixed header of each: struct "!BH",
\* "!BBH" and "!B I H"
Layouts == {"20", "21", "gbn"}
HeaderSize(layout) ==
    CASE layout = "20" -> 3
      [] layout = "21" -> 4
      [] layout = "gbn" -> 7

RECURSIVE SumBytes(_)
SumBytes(data) ==
    IF data = <<>> THEN 0 ELSE (data[1] + SumBytes(Tail(data))) % 65536

\* total = (total + b) & 0xFFFF for every byte; return (~total) & 0xFFFF
compute_checksum(data) == 65535 - SumBytes(data)

\* struct "H": a 16-bit value as two bytes, network byte order
PackH(cs) == <<cs \div 256, cs % 256>>
UnpackH(hi, lo) == hi * 256 + lo

(***************************************************************************)
(* utils/simulator.py: UnreliableChannel.                                  *)
(***************************************************************************)
\* packet_list[idx] ^= 0xFF
FlipByte(packet, idx) == [packet EXCEPT ![idx] = 255 - @]

\* the loop of _corrupt_packet: the packets that num_corruptions flips, each
\* at a position drawn anywhere in the packet, make of the packets given
RECURSIVE _corrupt_packet(_, _)
_corrupt_packet(packets, num_corruptions) ==
    IF num_corruptions = 0 THEN packets
    ELSE _corrupt_packet(
             UNION {{FlipByte(q, idx) : idx \in 1..Len(q)} : q \in packets},
             num_corruptions - 1)

\* num_corruptions = random.randint(1, 5), up to MaxFlips here
CorruptedVersions(packet) ==
    UNION {_corrupt_packet({packet}, n) : n \in 1..MaxFlips}

\* what UnreliableChannel.send may hand to the destination socket: nothing
\* (lost), the packet, or a corrupted packet; None stands for "lost"
None == <<>>
ChannelOutcomes(packet, lossy, corrupting) ==
    (IF lossy THEN {None} ELSE {})
    \cup {packet}
    \cup (IF corrupting THEN CorruptedVersions(packet) ELSE {})

\* the datagrams in flight after the channel took `out` for one send: the
\* delay timer of the channel makes the arrival order arbitrary, so the
\* datagrams in flight are a bag
Deliver(net, out) == IF out = None THEN net ELSE net (+) SetToBag({out})

\* a recvfrom that leaves the datagram it returns in the socket
Consume_Peek(net, m) == net

\* remove one copy of m
Consume(net, m) == net (-) SetToBag({m})

(***************************************************************************)
(* State.                                                                  *)
(***************************************************************************)
VARIABLES
    loss_rate,       \* UnreliableChannel.loss_rate > 0
    corrupt_rate,    \* UnreliableChannel.corrupt_rate > 0
    msgs,            \* the payloads the application passes to send, in order
    returned,        \* number of send calls that have returned
    delivered,       \* the payloads handed to app_deliver, in order
    net_data,        \* datagrams in flight to the receiver's socket
    net_ctrl,        \* datagrams in flight to the sender's socket
    pc,              \* where the sender is: "idle" between two sends, ...
    pkt,             \* the local pkt of send: the DATA packet being sent
    seq,             \* RDT21Sender.seq / RDT30Sender.seq / seq of GBNSender.send
    expected_seq,    \* RDT21Receiver.expected_seq / RDT30Receiver.expected_seq
    timeout_event,   \* _timeout_event.is_set()
    timer,           \* _timer and its thread: "none", "armed", "fired",
                     \* "cancelled"; "called" (run found finished clear and
                     \* is about to call _timer_expired), "cancelled_called"
                     \* (cancelled after that test)
    replaced_timers, \* the Timers _start_timer has taken out of _timer
                     \* whose thread still runs: armed (not cancelled, the
                     \* interval running) and called (between the test of
                     \* finished and the call of _timer_expired)
    base,            \* GBNSender.base
    nextseqnum,      \* GBNSender.nextseqnum
    N,               \* GBNSender.N
    send_buffer,     \* GBNSender.send_buffer
    expectedseqnum,  \* GBNReceiver.expectedseqnum
    faults,          \* packets the channel has lost or corrupted so far
    channel_sends,   \* the packets the GBNSender step that last called
                     \* channel.send passed to it, in the order of the calls
    receiver_pc,     \* the receiver's loop: "loop", or "raised" once an
                     \* exception has ended it
    variant,         \* the sender and receiver classes in use: "A" RDT20*,
                     \* "B" RDT21*, "C" RDT30*, "D" GBN*, "none"
    codec_args,      \* utils/packet.py: the arguments of make_packet_*
    codec_raw,       \* the bytes make_packet_* returned, as the channel left them
    codec_flips,     \* iterations of the loop of _corrupt_packet run on them
    codec_info,      \* the dictionary decode_packet_* returned for them
    seq_num,         \* RDT20Remetente.seq_num
    esperando_ack,   \* RDT20Remetente.esperando_ack
    enviar_pc,       \* where enviar_dados is: "idle" outside a call, "while"
                     \* at the test of its loop, "recvfrom" in socket.recvfrom
    chamada,         \* the call of enviar_dados in progress or the last one:
                     \* len(dados), and self.seq_num and self.esperando_ack
                     \* when it was made
    tentativa,       \* the local tentativa of enviar_dados
    sendto_calls,    \* the sequence numbers of the packets this call has
                     \* passed to socket.sendto, in order
    resposta,        \* what the last socket.recvfrom gave: the bytes, or
                     \* Timeout
    retorno,         \* what the calls of enviar_dados returned, in order
    tcp_state,       \* SimpleTCPSocket.state of the "client" and the "server"
    tcp_seq_num,     \* SimpleTCPSocket.seq_num of each
    tcp_ack_num,     \* SimpleTCPSocket.ack_num of each
    tcp_peer_address, \* SimpleTCPSocket.peer_address of each
    tcp_pc,          \* where each is: "start" before connect / accept is
                     \* called, "loop" in its while loop, "returned", or
                     \* "TimeoutError" once the call has raised it; for
                     \* close, "idle" before the call, "close" in the loop
                     \* of the active path, "returned"
    tcp_recv,        \* the datagrams waiting in the udp_socket of each, in
                     \* the order of their arrival
    tcp_syn_seq,     \* the local syn_seq of connect
    tcp_syns         \* the SYN packets connect has sent

\* the variables of the four protocol variants and their channel
rdtVars == <<loss_rate, corrupt_rate, msgs, returned, delivered, net_data,
             net_ctrl, pc, pkt, seq, expected_seq, timeout_event, timer,
             replaced_timers, base, nextseqnum, N, send_buffer, expectedseqnum,
             faults, channel_sends, receiver_pc>>
\* the variables of the codec of utils/packet.py
codecVars == <<codec_args, codec_raw, codec_flips, codec_info>>
\* the variables of fase1/rdt20-remetente.py
remetenteVars == <<seq_num, esperando_ack, enviar_pc, chamada, tentativa,
                   sendto_calls, resposta, retorno>>
\* the variables of fase3/TCPSocket.py
tcpVars == <<tcp_state, tcp_seq_num, tcp_ack_num, tcp_peer_address, tcp_pc,
             tcp_recv, tcp_syn_seq, tcp_syns>>
\* the variables the protocol variants leave alone
otherVars == <<variant, codecVars, remetenteVars, tcpVars>>

\* the layout of the packets of the variant in use
LayoutOf(v) ==
    CASE v = "A" -> "20"
      [] v \in {"B", "C"} -> "21"
      [] v = "D" -> "gbn"

\* the datagrams in flight that hold a whole header: struct.unpack raises
\* struct.error for the others
Framed(net) ==
    {m \in BagToSet(net) : Len(m) >= HeaderSize(LayoutOf(variant))}
Unframed(net) ==
    {m \in BagToSet(net) : Len(m) < HeaderSize(LayoutOf(variant))}

vars == <<rdtVars, otherVars>>

channelCfg == <<loss_rate, corrupt_rate>>
timerVars == <<timeout_event, timer, replaced_timers>>
gbnVars == <<base, nextseqnum, N, send_buffer, expectedseqnum>>

\* the timers whose thread is between the test of finished in Timer.run and
\* the call of _timer_expired
TimerCalled == {"called", "cancelled_called"}

\* _timer after _start_timer: a new Timer, armed
start_timer(t) == "armed"

\* the Timers out of _timer after _start_timer has put a new one in the
\* place of t, which it does not cancel: a t that was armed expires later,
\* and the thread of a t that has passed its test of finished still calls
\* _timer_expired
Replaced(t, old) ==
    CASE t = "armed" -> [old EXCEPT !.armed = @ + 1]
      [] t \in TimerCalled -> [old EXCEPT !.called = @ + 1]
      [] OTHER -> old

\* _timer after _stop_timer: cancel sets finished, which a thread that has
\* passed its test of finished does not read again
stop_timer(t) ==
    CASE t = "armed" -> "cancelled"
      [] t = "called" -> "cancelled_called"
      [] OTHER -> t

\* the codec of utils/packet.py not in use
CodecUnused ==
    /\ codec_args = <<>>
    /\ codec_raw = <<>>
    /\ codec_flips = 0
    /\ codec_info = <<>>

\* RDT20Remetente after __init__, not in use
RemetenteUnused ==
    /\ seq_num = 0
    /\ esperando_ack = FALSE
    /\ enviar_pc = "idle"
    /\ chamada = <<>>
    /\ tentativa = 0
    /\ sendto_calls = <<>>
    /\ resposta = <<>>
    /\ retorno = <<>>

\* no SimpleTCPSocket in use
TCPUnused ==
    /\ tcp_state = <<>>
    /\ tcp_seq_num = <<>>
    /\ tcp_ack_num = <<>>
    /\ tcp_peer_address = <<>>
    /\ tcp_pc = <<>>
    /\ tcp_recv = <<>>
    /\ tcp_syn_seq = 0
    /\ tcp_syns = 0

\* The integers of fase2/gbn.py (Python integers, sequence numbers of 32
\* bits) as hi * 2^24 + lo with 0 <= lo < 2^24.
Radix == 256 * 256 * 256
Big(hi, lo) == [hi |-> hi, lo |-> lo]
BigOf(n) == Big(0, n)
\* x + 1
Inc(x) == IF x.lo = Radix - 1 THEN Big(x.hi + 1, 0) ELSE Big(x.hi, x.lo + 1)
\* x - 1
Dec(x) == IF x.lo = 0 THEN Big(x.hi - 1, Radix - 1) ELSE Big(x.hi, x.lo - 1)
\* x & 0xFFFFFFFF
Mask32(x) == Big(x.hi % 256, x.lo)
\* x < y
Less(x, y) == x.hi < y.hi \/ (x.hi = y.hi /\ x.lo < y.lo)
\* x - y >= n, for 0 <= n < 2^24
AtLeast(x, y, n) ==
    IF x.hi - y.hi > 1 THEN TRUE
    ELSE IF x.hi - y.hi < -1 THEN FALSE
    ELSE (x.hi - y.hi) * Radix + x.lo - y.lo >= n
\* x.to_bytes(4) and its inverse
to_bytes4(x) == <<x.hi, x.lo \div 65536, (x.lo \div 256) % 256, x.lo % 256>>
from_bytes4(b) == Big(b[1], b[2] * 65536 + b[3] * 256 + b[4])

\* GBNSender and GBNReceiver with n payloads transferred and nothing buffered
InitGBN(n, size) ==
    /\ base = BigOf(n)
    /\ nextseqnum = BigOf(n)
    /\ N = size
    /\ send_buffer = <<>>
    /\ expectedseqnum = BigOf(n)

\* the lists of payloads an application may send
MsgLists(longest) == UNION {[1..n -> Payloads] : n \in 0..longest}

\* one channel.send(packet, ...) with net in flight and f faults so far, its
\* outcome one of outs: the pairs <<in flight, faults>> it may leave. The
\* channel delivers while fewer than MaxInFlight datagrams are in flight, and
\* loses or corrupts while it has done so fewer than MaxFaults times; a lossy
\* channel also loses what it cannot deliver.
Transmit(net, f, packet, outs) ==
    LET full == BagCardinality(net) >= MaxInFlight
    IN  {<<Deliver(net, out),
           IF out = packet \/ f >= MaxFaults THEN f ELSE f + 1>> :
            out \in {o \in outs :
                        IF o = None THEN f < MaxFaults \/ full
                        ELSE ~full /\ (o # packet => f < MaxFaults)}}

\* channel.send(packet, ...) towards the receiver: the packet is not
\* corrupted, or it is (the packet is bound by a quantifier so that it is
\* computed once)
TransmitData(packet) ==
    \E p \in {packet} :
        \/ \E r \in Transmit(net_data, faults, p,
                              ChannelOutcomes(p, loss_rate, FALSE)) :
              /\ net_data' = r[1]
              /\ faults' = r[2]
        \/ \E r \in Transmit(net_data, faults, p,
                              ChannelOutcomes(p, FALSE, corrupt_rate)) :
              /\ net_data' = r[1]
              /\ faults' = r[2]

\* channel.send(packet, ...) towards the sender
TransmitCtrl(packet) ==
    \E p \in {packet} :
        \/ \E r \in Transmit(net_ctrl, faults, p,
                              ChannelOutcomes(p, loss_rate, FALSE)) :
              /\ net_ctrl' = r[1]
              /\ faults' = r[2]
        \/ \E r \in Transmit(net_ctrl, faults, p,
                              ChannelOutcomes(p, FALSE, corrupt_rate)) :
              /\ net_ctrl' = r[1]
              /\ faults' = r[2]

\* the state after construction, but for the protocol's own fields, with
\* the list of payloads the application sends one of lists
InitCommonOf(lists) ==
    /\ msgs \in lists
    /\ returned = 0
    /\ delivered = <<>>
    /\ net_data = EmptyBag
    /\ net_ctrl = EmptyBag
    /\ pc = "idle"
    /\ pkt = <<>>
    /\ faults = 0
    /\ channel_sends = <<>>
    /\ receiver_pc = "loop"
    /\ CodecUnused
    /\ RemetenteUnused
    /\ TCPUnused

\* _timer and _timeout_event of a sender when n calls of send have returned:
\* no Timer yet and the event clear after __init__; afterwards the Timer of
\* the last call cancelled and the event set, both by the _stop_timer that
\* precedes the return of send
InitTimer(n) ==
    /\ IF n = 0 THEN timer = "none" /\ timeout_event = FALSE
       ELSE timer = "cancelled" /\ timeout_event = TRUE
    /\ replaced_timers = [armed |-> 0, called |-> 0]

(***************************************************************************)
(* Variant A: fase1/rdt20.py                                               *)
(***************************************************************************)
make_packet20(pkt_type, payload) ==
    <<pkt_type>> \o PackH(compute_checksum(<<pkt_type>> \o payload)) \o payload

\* a decode_packet that takes the payload one byte too far into the packet
decode_packet20_PayloadShifted(raw) ==
    LET payload == SubSeq(raw, 4, Len(raw))
    IN  [type |-> raw[1],
         checksum_ok |->
             UnpackH(raw[2], raw[3]) = compute_checksum(<<raw[1]>> \o payload),
         payload |-> SubSeq(raw, 5, Len(raw))]

decode_packet20(raw) ==
    LET payload == SubSeq(raw, 4, Len(raw))
    IN  [type |-> raw[1],
         checksum_ok |->
             UnpackH(raw[2], raw[3]) = compute_checksum(<<raw[1]>> \o payload),
         payload |-> payload]

\* a make_ack that builds a NAK
make_ack20_Nak == make_packet20(TYPE_NAK, <<>>)
make_ack20 == make_packet20(TYPE_ACK, <<>>)
make_nak20 == make_packet20(TYPE_NAK, <<>>)
is_ack20(info) == info.type = TYPE_ACK /\ info.checksum_ok
is_nak20(info) == info.type = TYPE_NAK /\ info.checksum_ok

\* what RDT20Sender.send does with a response: "return" or "retransmit"
RDT20SenderOn(info) ==
    IF ~info.checksum_ok THEN "retransmit"
    ELSE IF is_nak20(info) THEN "retransmit"
    ELSE IF is_ack20(info) THEN "return"
    ELSE "retransmit"

\* what RDT20Receiver.loop does with a packet: "nak", "ignore" or "deliver"
RDT20ReceiverOn(info) ==
    IF ~info.checksum_ok THEN "nak"
    ELSE IF info.type # TYPE_DATA THEN "ignore"
    ELSE "deliver"

\* RDT20Sender.send up to its first recvfrom: build the packet, transmit
RDT20Sender_send ==
    /\ pc = "idle"
    /\ returned < Len(msgs)
    /\ pkt' = make_packet20(TYPE_DATA, msgs[returned + 1])
    /\ TransmitData(pkt')
    /\ pc' = "wait"
    /\ UNCHANGED <<channelCfg, otherVars, receiver_pc, channel_sends, gbnVars, msgs, returned, delivered, net_ctrl, seq,
                   expected_seq, timerVars>>

\* RDT20Sender.send from one recvfrom to the next one, or to the return
RDT20Sender_recv ==
    /\ pc = "wait"
    /\ \E msg \in Framed(net_ctrl) :
          /\ net_ctrl' = Consume(net_ctrl, msg)
          /\ IF RDT20SenderOn(decode_packet20(msg)) = "return"
             THEN /\ returned' = returned + 1
                  /\ pc' = "idle"
                  /\ UNCHANGED <<net_data, faults>>
             ELSE /\ TransmitData(pkt)
                  /\ UNCHANGED <<returned, pc>>
    /\ UNCHANGED <<channelCfg, otherVars, receiver_pc, channel_sends, gbnVars, msgs, delivered, pkt, seq, expected_seq,
                   timerVars>>

\* one iteration of RDT20Receiver.loop
RDT20Receiver_loop ==
    /\ receiver_pc = "loop"
    /\ \E raw \in Framed(net_data) :
          LET info == decode_packet20(raw)
              todo == RDT20ReceiverOn(info)
          IN  /\ net_data' = Consume(net_data, raw)
              /\ IF todo = "nak"
                 THEN /\ TransmitCtrl(make_nak20)
                      /\ UNCHANGED delivered
                 ELSE IF todo = "ignore"
                 THEN UNCHANGED <<delivered, net_ctrl, faults>>
                 ELSE /\ delivered' = Append(delivered, info.payload)
                      /\ TransmitCtrl(make_ack20)
    /\ UNCHANGED <<channelCfg, otherVars, receiver_pc, channel_sends, gbnVars, msgs, returned, pc, pkt, seq, expected_seq,
                   timerVars>>

\* RDT20Sender and RDT20Receiver after construction, the channel given
InitA(lossy, corrupting) ==
    /\ variant = "A"
    /\ InitCommonOf(MsgLists(MaxMsgs))
    /\ InitTimer(0)
    /\ InitGBN(0, DefaultN)
    /\ loss_rate = lossy
    /\ corrupt_rate = corrupting
    /\ seq = 0
    /\ expected_seq = 0

NextA == RDT20Sender_send \/ RDT20Sender_recv \/ RDT20Receiver_loop

\* variant A over a channel that corrupts, the application sending payloads
\* of one byte 0xFF
InitAOnes ==
    /\ variant = "A"
    /\ InitCommonOf({[i \in 1..n |-> <<255>>] : n \in 1..MaxMsgs})
    /\ InitTimer(0)
    /\ InitGBN(0, DefaultN)
    /\ loss_rate = FALSE
    /\ corrupt_rate = TRUE
    /\ seq = 0
    /\ expected_seq = 0
SpecAOnes == InitAOnes /\ [][NextA]_vars

\* variant A over a perfect channel (loss_rate = 0.0, corrupt_rate = 0.0)
InitAPerfect == InitA(FALSE, FALSE)
SpecAPerfect == InitAPerfect /\ [][NextA]_vars

\* variant A over a channel that corrupts and loses nothing
InitACorrupt == InitA(FALSE, TRUE)
SpecACorrupt == InitACorrupt /\ [][NextA]_vars

(***************************************************************************)
(* Variant B: fase1/rdt21.py                                               *)
(***************************************************************************)
make_packet21(pkt_type, sq, payload) ==
    <<pkt_type, sq>> \o PackH(compute_checksum(<<pkt_type, sq>> \o payload))
        \o payload

decode_packet21(raw) ==
    LET payload == SubSeq(raw, 5, Len(raw))
    IN  [type |-> raw[1],
         seq |-> raw[2],
         checksum_ok |->
             UnpackH(raw[3], raw[4])
                 = compute_checksum(<<raw[1], raw[2]>> \o payload),
         payload |-> payload]

make_data21(sq, data) == make_packet21(TYPE_DATA, sq, data)
make_ack21(sq) == make_packet21(TYPE_ACK, sq, <<>>)
make_nak21(sq) == make_packet21(TYPE_NAK, sq, <<>>)
is_ack21(info, expected) ==
    info.type = TYPE_ACK /\ info.checksum_ok /\ info.seq = expected
is_nak21(info, expected) ==
    info.type = TYPE_NAK /\ info.checksum_ok /\ info.seq = expected

\* a send that does not test the checksum of the response
RDT21SenderOn_NoChecksumTest(info, sq) ==
    IF info.type = TYPE_ACK /\ info.seq = sq THEN "return" ELSE "retransmit"

\* what RDT21Sender.send does with a response: every continue of its loop
\* goes back to channel.send, so all but the ACK awaited retransmit
RDT21SenderOn(info, sq) ==
    IF ~info.checksum_ok THEN "retransmit"
    ELSE IF is_nak21(info, sq) THEN "retransmit"
    ELSE IF info.type = TYPE_ACK /\ info.seq # sq THEN "retransmit"
    ELSE IF info.type = TYPE_NAK /\ info.seq # sq THEN "retransmit"
    ELSE IF is_ack21(info, sq) THEN "return"
    ELSE "retransmit"

\* a loop that does not compare the sequence number with expected_seq
RDT21ReceiverOn_NoSeqTest(info, expected) ==
    IF ~info.checksum_ok THEN "nak"
    ELSE IF info.type # TYPE_DATA THEN "ignore"
    ELSE "deliver"

\* a loop that answers a duplicate like a corrupted packet
RDT21ReceiverOn_NakDuplicate(info, expected) ==
    IF ~info.checksum_ok THEN "nak"
    ELSE IF info.type # TYPE_DATA THEN "ignore"
    ELSE IF info.seq = expected THEN "deliver"
    ELSE "nak"

\* what RDT21Receiver.loop does with a packet
RDT21ReceiverOn(info, expected) ==
    IF ~info.checksum_ok THEN "nak"
    ELSE IF info.type # TYPE_DATA THEN "ignore"
    ELSE IF info.seq = expected THEN "deliver"
    ELSE "duplicate"

\* RDT21Sender.send up to its first recvfrom
RDT21Sender_send ==
    /\ pc = "idle"
    /\ returned < Len(msgs)
    /\ pkt' = make_data21(seq, msgs[returned + 1])
    /\ TransmitData(pkt')
    /\ pc' = "wait"
    /\ UNCHANGED <<channelCfg, otherVars, receiver_pc, channel_sends, gbnVars, msgs, returned, delivered, net_ctrl, seq,
                   expected_seq, timerVars>>

\* a sender whose recvfrom gives up after a while and which transmits again
RDT21Sender_recv_TimesOut ==
    /\ pc = "wait"
    /\ TransmitData(pkt)
    /\ UNCHANGED <<channelCfg, otherVars, receiver_pc, channel_sends, gbnVars, msgs, delivered, pkt, expected_seq, timerVars,
                   net_ctrl, returned, pc, seq>>

\* RDT21Sender.send from one recvfrom to the next one, or to the return
RDT21Sender_recv ==
    /\ pc = "wait"
    /\ \E msg \in Framed(net_ctrl) :
          /\ net_ctrl' = Consume(net_ctrl, msg)
          /\ IF RDT21SenderOn(decode_packet21(msg), seq) = "return"
             THEN /\ seq' = 1 - seq
                  /\ returned' = returned + 1
                  /\ pc' = "idle"
                  /\ UNCHANGED <<net_data, faults>>
             ELSE /\ TransmitData(pkt)
                  /\ UNCHANGED <<returned, pc, seq>>
    /\ UNCHANGED <<channelCfg, otherVars, receiver_pc, channel_sends, gbnVars, msgs, delivered, pkt, expected_seq, timerVars>>

\* one iteration of RDT21Receiver.loop
RDT21Receiver_loop ==
    /\ receiver_pc = "loop"
    /\ \E raw \in Framed(net_data) :
          LET info == decode_packet21(raw)
              todo == RDT21ReceiverOn(info, expected_seq)
          IN  /\ net_data' = Consume(net_data, raw)
              /\ IF todo = "nak"
                 THEN /\ TransmitCtrl(make_nak21(expected_seq))
                      /\ UNCHANGED <<delivered, expected_seq>>
                 ELSE IF todo = "ignore"
                 THEN UNCHANGED <<delivered, expected_seq, net_ctrl, faults>>
                 ELSE IF todo = "deliver"
                 THEN /\ delivered' = Append(delivered, info.payload)
                      /\ TransmitCtrl(make_ack21(expected_seq))
                      /\ expected_seq' = 1 - expected_seq
                 ELSE /\ TransmitCtrl(make_ack21(1 - expected_seq))
                      /\ UNCHANGED <<delivered, expected_seq>>
    /\ UNCHANGED <<channelCfg, otherVars, receiver_pc, channel_sends, gbnVars, msgs, returned, pc, pkt, seq, timerVars>>

\* RDT21Sender and RDT21Receiver after construction (seq 0) or with an odd
\* number of payloads transferred before (seq 1), the channel given
InitB(lossy, corrupting) ==
    /\ variant = "B"
    /\ InitCommonOf(MsgLists(MaxMsgs))
    /\ InitTimer(0)
    /\ InitGBN(0, DefaultN)
    /\ loss_rate = lossy
    /\ corrupt_rate = corrupting
    /\ seq \in {0, 1}
    /\ expected_seq = seq

NextB == RDT21Sender_send \/ RDT21Sender_recv \/ RDT21Receiver_loop

\* variant B over a channel that corrupts and loses nothing
InitBCorrupt == InitB(FALSE, TRUE)
SpecBCorrupt == InitBCorrupt /\ [][NextB]_vars

\* variant B over a channel that corrupts, the application sending payloads
\* of one byte 0xFF
InitBOnes ==
    /\ variant = "B"
    /\ InitCommonOf({[i \in 1..n |-> <<255>>] : n \in 1..MaxMsgs})
    /\ InitTimer(0)
    /\ InitGBN(0, DefaultN)
    /\ loss_rate = FALSE
    /\ corrupt_rate = TRUE
    /\ seq \in {0, 1}
    /\ expected_seq = seq
SpecBOnes == InitBOnes /\ [][NextB]_vars

\* variants A and B side by side over the channel that corrupts and loses
\* nothing
InitAB == InitACorrupt \/ InitBCorrupt
NextAB == (variant = "A" /\ NextA) \/ (variant = "B" /\ NextB)
SpecAB == InitAB /\ [][NextAB]_vars

\* variants A and B side by side over a channel that loses and corrupts
\* packets
InitABLossy == InitA(TRUE, TRUE) \/ InitB(TRUE, TRUE)
SpecABLossy == InitABLossy /\ [][NextAB]_vars

(***************************************************************************)
(* Variant C: fase1/rdt30.py                                               *)
(***************************************************************************)
make_packet30(pkt_type, sq, payload) ==
    <<pkt_type, sq>> \o PackH(compute_checksum(<<pkt_type, sq>> \o payload))
        \o payload

decode_packet30(raw) ==
    LET payload == SubSeq(raw, 5, Len(raw))
    IN  [type |-> raw[1],
         seq |-> raw[2],
         checksum_ok |->
             UnpackH(raw[3], raw[4])
                 = compute_checksum(<<raw[1], raw[2]>> \o payload),
         payload |-> payload]

make_data30(sq, data) == make_packet30(TYPE_DATA, sq, data)
make_ack30(sq) == make_packet30(TYPE_ACK, sq, <<>>)
make_nak30(sq) == make_packet30(TYPE_NAK, sq, <<>>)
is_ack30(info, expected) ==
    info.type = TYPE_ACK /\ info.checksum_ok /\ info.seq = expected
is_nak30(info, expected) ==
    info.type = TYPE_NAK /\ info.checksum_ok /\ info.seq = expected

\* an inner loop that does not test checksum_ok
RDT30SenderOn_NoChecksumTest(info, sq) ==
    IF info.type = TYPE_ACK /\ info.seq = sq THEN "return" ELSE "continue"

\* what the inner loop of RDT30Sender.send does with a response
RDT30SenderOn(info, sq) ==
    IF ~info.checksum_ok THEN "continue"
    ELSE IF is_nak30(info, sq) THEN "continue"
    ELSE IF info.type = TYPE_ACK /\ info.seq # sq THEN "continue"
    ELSE IF is_ack30(info, sq) THEN "return"
    ELSE "continue"

\* what RDT30Receiver.loop does with a packet
RDT30ReceiverOn(info, expected) ==
    IF ~info.checksum_ok THEN "nak"
    ELSE IF info.type # TYPE_DATA THEN "ignore"
    ELSE IF info.seq = expected THEN "deliver"
    ELSE "duplicate"

\* RDT30Sender.send up to the inner loop: build the packet, transmit, arm
RDT30Sender_send ==
    /\ pc = "idle"
    /\ returned < Len(msgs)
    /\ pkt' = make_data30(seq, msgs[returned + 1])
    /\ TransmitData(pkt')
    /\ timeout_event' = FALSE
    /\ timer' = start_timer(timer)
    /\ replaced_timers' = Replaced(timer, replaced_timers)
    /\ pc' = "poll"
    /\ UNCHANGED <<channelCfg, otherVars, receiver_pc, channel_sends, gbnVars, msgs, returned, delivered, net_ctrl, seq,
                   expected_seq>>

\* the inner loop finds _timeout_event set: break, transmit again, arm
RDT30Sender_timeout ==
    /\ pc = "poll"
    /\ timeout_event
    /\ TransmitData(pkt)
    /\ timeout_event' = FALSE
    /\ timer' = start_timer(timer)
    /\ replaced_timers' = Replaced(timer, replaced_timers)
    /\ UNCHANGED <<channelCfg, otherVars, receiver_pc, channel_sends, gbnVars, msgs, returned, delivered, net_ctrl, pc, pkt,
                   seq, expected_seq>>

\* recvfrom returns msg (the timer may have expired while the sender was
\* inside recvfrom), up to the next recvfrom or the return: on the ACK of
\* seq, _stop_timer and return; on anything else, continue, and if the loop
\* then finds _timeout_event set, break, transmit again and arm
RDT30Sender_recv(msg) ==
    /\ pc = "poll"
    /\ msg \in Framed(net_ctrl)
    /\ net_ctrl' = Consume(net_ctrl, msg)
    /\ IF RDT30SenderOn(decode_packet30(msg), seq) = "return"
       THEN /\ timer' = stop_timer(timer)
            /\ timeout_event' = TRUE
            /\ UNCHANGED replaced_timers
            /\ seq' = (seq + 1) % 256
            /\ returned' = returned + 1
            /\ pc' = "idle"
            /\ UNCHANGED <<net_data, faults>>
       ELSE /\ IF timeout_event
               THEN /\ TransmitData(pkt)
                    /\ timeout_event' = FALSE
                    /\ timer' = start_timer(timer)
                    /\ replaced_timers' = Replaced(timer, replaced_timers)
               ELSE UNCHANGED <<timerVars, net_data, faults>>
            /\ UNCHANGED <<seq, returned, pc>>
    /\ UNCHANGED <<channelCfg, otherVars, receiver_pc, channel_sends, gbnVars, msgs, delivered, pkt, expected_seq>>

\* threading.Timer: the interval elapsed on a timer not cancelled
RDT30Sender_timer_expired ==
    /\ timer = "armed"
    /\ timer' = "fired"
    /\ timeout_event' = TRUE
    /\ UNCHANGED <<replaced_timers, channelCfg, otherVars, receiver_pc, channel_sends, gbnVars, msgs, returned, delivered, net_data, net_ctrl,
                   pc, pkt, seq, expected_seq, faults>>

\* one iteration of RDT30Receiver.loop on the datagram raw
RDT30Receiver_loop(raw) ==
    /\ receiver_pc = "loop"
    /\ raw \in Framed(net_data)
    /\ \E info \in {decode_packet30(raw)} :
       \E todo \in {RDT30ReceiverOn(info, expected_seq)} :
           /\ net_data' = Consume(net_data, raw)
           /\ IF todo = "nak"
              THEN /\ TransmitCtrl(make_nak30(expected_seq))
                   /\ UNCHANGED <<delivered, expected_seq>>
              ELSE IF todo = "ignore"
              THEN UNCHANGED <<delivered, expected_seq, net_ctrl, faults>>
              ELSE IF todo = "deliver"
              THEN /\ delivered' = Append(delivered, info.payload)
                   /\ TransmitCtrl(make_ack30(expected_seq))
                   /\ expected_seq' = (expected_seq + 1) % 256
              ELSE /\ TransmitCtrl(make_ack30((expected_seq - 1) % 256))
                   /\ UNCHANGED <<delivered, expected_seq>>
    /\ UNCHANGED <<channelCfg, otherVars, receiver_pc, channel_sends, gbnVars, msgs, returned, pc, pkt, seq, timerVars>>

\* RDT30Sender and RDT30Receiver with seq = expected_seq = n and nothing in
\* flight: after construction (0) or after n transfers, the channel given
InitC(lossy, corrupting) ==
    /\ variant = "C"
    /\ InitCommonOf(MsgLists(MaxMsgsTimed))
    /\ InitGBN(0, DefaultN)
    /\ loss_rate = lossy
    /\ corrupt_rate = corrupting
    /\ seq \in StartSeqs
    /\ InitTimer(seq)
    /\ expected_seq = seq

NextC ==
    \/ RDT30Sender_send
    \/ RDT30Sender_timeout
    \/ \E msg \in BagToSet(net_ctrl) : RDT30Sender_recv(msg)
    \/ RDT30Sender_timer_expired
    \/ \E raw \in BagToSet(net_data) : RDT30Receiver_loop(raw)

\* variant C over a channel that loses, corrupts, delays and reorders
InitCLossy == InitC(TRUE, TRUE)
SpecC == InitCLossy /\ [][NextC]_vars

\* the same from construction alone
InitCConstructed == InitCLossy /\ seq = 0
SpecCConstructed == InitCConstructed /\ [][NextC]_vars

\* The timer thread and both loops keep running: an armed timer expires, the
\* sender acts on a timeout, the sender again and again finds a datagram on
\* its socket before the next timeout, and the ACK of the current sequence
\* number if one is in flight again and again; the receiver takes what is in
\* flight.
\* The channel is fair: it loses or corrupts at most MaxFaults packets, and
\* afterwards loses only what is sent while MaxInFlight are in flight.
FairC ==
    /\ WF_vars(RDT30Sender_timer_expired)
    /\ WF_vars(RDT30Sender_timeout)
    /\ SF_vars(\E msg \in BagToSet(net_ctrl) : RDT30Sender_recv(msg))
    /\ SF_vars(\E ack \in {make_ack30(seq)} : RDT30Sender_recv(ack))
    /\ WF_vars(\E raw \in BagToSet(net_data) : RDT30Receiver_loop(raw))

\* one call to send
InitCOneSend == InitCLossy /\ Len(msgs) = 1
SpecCFair == InitCOneSend /\ [][NextC]_vars /\ FairC

(***************************************************************************)
(* Variant D: fase2/gbn.py                                                 *)
(***************************************************************************)
make_packetGBN(pkt_type, sq, payload) ==
    <<pkt_type>> \o to_bytes4(sq)
        \o PackH(compute_checksum(<<pkt_type>> \o to_bytes4(sq) \o payload))
        \o payload

decode_packetGBN(raw) ==
    LET sq == from_bytes4(SubSeq(raw, 2, 5))
        payload == SubSeq(raw, 8, Len(raw))
    IN  [type |-> raw[1],
         seq |-> sq,
         checksum_ok |->
             UnpackH(raw[6], raw[7])
                 = compute_checksum(<<raw[1]>> \o to_bytes4(sq) \o payload),
         payload |-> payload]

make_dataGBN(sq, data) == make_packetGBN(TYPE_DATA, sq, data)
make_ackGBN(sq) == make_packetGBN(TYPE_ACK, sq, <<>>)
\* a test that takes a valid ACK of any sequence number
is_ackGBN_AnySeq(info, b, nsn) ==
    IF info.type # TYPE_ACK THEN FALSE
    ELSE info.checksum_ok

is_ackGBN(info, b, nsn) ==
    IF info.type # TYPE_ACK THEN FALSE
    ELSE IF ~info.checksum_ok THEN FALSE
    ELSE ~Less(info.seq, b) /\ Less(info.seq, nsn)

\* self.send_buffer[k] = v
BufferPut(buf, k, v) ==
    [s \in DOMAIN buf \union {k} |-> IF s = k THEN v ELSE buf[s]]

\* a removal that leaves the packet just below the new base in the buffer
BufferAcked_KeepLast(buf, b) ==
    LET kept == {s \in DOMAIN buf : ~Less(s, Dec(b))}
    IN  IF kept = {} THEN <<>> ELSE [s \in kept |-> buf[s]]

\* del self.send_buffer[s] for every key s with b > s
BufferAcked(buf, b) ==
    LET kept == {s \in DOMAIN buf : ~Less(s, b)}
    IN  IF kept = {} THEN <<>> ELSE [s \in kept |-> buf[s]]

\* sorted(keys, reverse=True)
RECURSIVE sorted_Descending(_)
sorted_Descending(keys) ==
    IF keys = {} THEN <<>>
    ELSE LET most == CHOOSE x \in keys : \A y \in keys : ~Less(x, y)
         IN  <<most>> \o sorted_Descending(keys \ {most})

\* sorted(keys)
RECURSIVE sorted(_)
sorted(keys) ==
    IF keys = {} THEN <<>>
    ELSE LET least == CHOOSE x \in keys : \A y \in keys : ~Less(y, x)
         IN  <<least>> \o sorted(keys \ {least})

\* channel.send of each packet of the list in turn
RECURSIVE TransmitAll(_, _, _, _, _)
TransmitAll(net, f, packets, lossy, corrupting) ==
    IF packets = <<>> THEN {<<net, f>>}
    ELSE UNION {TransmitAll(r[1], r[2], Tail(packets), lossy, corrupting) :
                    r \in Transmit(net, f, Head(packets),
                                   ChannelOutcomes(Head(packets), lossy,
                                                   corrupting))}

\* a base that skips one sequence number
NewBase_Skip(ack) == Inc(Inc(ack))
\* the value _handle_incoming gives base on an ACK carrying ack
NewBase(ack) == Inc(ack)

\* _on_timeout with the buffer buf, the timer t and the replaced timers old,
\* in a step of the sender that has passed the packets of first to
\* channel.send already: channel.send of every buffered packet in ascending
\* order of key, then _stop_timer, _start_timer
on_timeout(first, buf, t, old) ==
    /\ \E keys \in {sorted(DOMAIN buf)} :
       \E packets \in {first \o [i \in 1..Len(keys) |-> buf[keys[i]]]} :
           /\ channel_sends' = packets
           /\ \/ \E r \in TransmitAll(net_data, faults, packets, loss_rate,
                                       FALSE) :
                    /\ net_data' = r[1]
                    /\ faults' = r[2]
              \/ \E r \in TransmitAll(net_data, faults, packets, loss_rate,
                                       corrupt_rate) :
                    /\ net_data' = r[1]
                    /\ faults' = r[2]
    /\ timeout_event' = FALSE
    /\ timer' = start_timer(stop_timer(t))
    /\ replaced_timers' = Replaced(stop_timer(t), old)

\* GBNSender.send up to its first recvfrom: test the window (pc = "full":
\* inside the loop that waits while the window is full, at its recvfrom
\* while the window is full, past the loop once it is not) and, unless it is
\* full, buffer and transmit a new packet and start the timer for a base
\* packet; the loop that follows calls _on_timeout first if it finds
\* _timeout_event set, which it can only when an earlier call left a packet
\* buffered (base # nextseqnum, so that the timer is not started here)
GBNSender_send ==
    /\ pc \in {"idle", "full"}
    /\ returned < Len(msgs)
    /\ IF AtLeast(nextseqnum, base, N)
       THEN /\ pc = "idle"
            /\ pc' = "full"
            /\ UNCHANGED <<seq, pkt, send_buffer, net_data, faults,
                           timerVars, nextseqnum, channel_sends>>
       ELSE \E sq \in {Mask32(nextseqnum)} :
            \E p \in {make_dataGBN(sq, msgs[returned + 1])} :
            \E buf \in {BufferPut(send_buffer, sq, p)} :
                /\ seq' = sq
                /\ pkt' = p
                /\ send_buffer' = buf
                /\ IF base = nextseqnum
                   THEN /\ TransmitData(p)
                        /\ channel_sends' = <<p>>
                        /\ timeout_event' = FALSE
                        /\ timer' = start_timer(timer)
                        /\ replaced_timers' =
                              Replaced(timer, replaced_timers)
                   ELSE IF timeout_event
                   THEN on_timeout(<<p>>, buf, timer, replaced_timers)
                   ELSE /\ TransmitData(p)
                        /\ channel_sends' = <<p>>
                        /\ UNCHANGED timerVars
                /\ nextseqnum' = Inc(nextseqnum)
                /\ pc' = "wait"
    /\ UNCHANGED <<channelCfg, otherVars, receiver_pc, msgs, returned, delivered, net_ctrl,
                   expected_seq, base, N, expectedseqnum>>

\* the loop of send finds _timeout_event set (recvfrom timed out, if the
\* sender was inside it): clear it, _on_timeout
GBNSender_on_timeout ==
    /\ pc = "wait"
    /\ timeout_event
    /\ on_timeout(<<>>, send_buffer, timer, replaced_timers)
    /\ UNCHANGED <<channelCfg, otherVars, receiver_pc, gbnVars, msgs, returned, delivered, net_ctrl,
                   pc, pkt, seq, expected_seq>>

\* the sender is inside recvfrom: in the loop of send that waits for seq to
\* leave the buffer, or in the one that waits while the window is full
GBNSender_recvfrom ==
    pc = "wait" \/ (pc = "full" /\ AtLeast(nextseqnum, base, N))

\* _handle_incoming when recvfrom returns raw (the timer may have expired
\* while the sender was inside recvfrom), up to the next recvfrom, the
\* return of send or the end of the loop that waits while the window is
\* full: the loop of send ends once seq left the buffer, and otherwise calls
\* _on_timeout first if it finds _timeout_event set
GBNSender_handle_incoming(raw) ==
    /\ GBNSender_recvfrom
    /\ raw \in Framed(net_ctrl)
    /\ net_ctrl' = Consume(net_ctrl, raw)
    /\ \E info \in {decode_packetGBN(raw)} :
       \E taken \in {info.checksum_ok /\ is_ackGBN(info, base, nextseqnum)} :
       \E b \in {IF taken THEN NewBase(info.seq) ELSE base} :
       \E buf \in {IF taken THEN BufferAcked(send_buffer, b)
                   ELSE send_buffer} :
       \E t \in {IF ~taken THEN timer
                 ELSE IF b = nextseqnum THEN stop_timer(timer)
                 ELSE start_timer(stop_timer(timer))} :
       \E old \in {IF taken /\ b # nextseqnum
                   THEN Replaced(stop_timer(timer), replaced_timers)
                   ELSE replaced_timers} :
       \E event \in {IF taken THEN b = nextseqnum ELSE timeout_event} :
           /\ base' = b
           /\ send_buffer' = buf
           /\ IF pc = "wait" /\ seq \notin DOMAIN buf
              THEN /\ returned' = returned + 1
                   /\ pc' = "idle"
                   /\ timer' = t
                   /\ replaced_timers' = old
                   /\ timeout_event' = event
                   /\ UNCHANGED <<net_data, faults, channel_sends>>
              ELSE IF pc = "wait" /\ event
              THEN /\ on_timeout(<<>>, buf, t, old)
                   /\ UNCHANGED <<returned, pc>>
              ELSE /\ timer' = t
                   /\ replaced_timers' = old
                   /\ timeout_event' = event
                   /\ UNCHANGED <<returned, pc, net_data, faults,
                                  channel_sends>>
    /\ UNCHANGED <<channelCfg, otherVars, receiver_pc, msgs, delivered, pkt, seq,
                   expected_seq, nextseqnum, N, expectedseqnum>>

\* threading.Timer: the interval elapsed on a timer not cancelled
GBNSender_timer_expired ==
    /\ timer = "armed"
    /\ timer' = "fired"
    /\ timeout_event' = TRUE
    /\ UNCHANGED <<replaced_timers, channelCfg, otherVars, receiver_pc, channel_sends, gbnVars, msgs, returned, delivered, net_data,
                   net_ctrl, pc, pkt, seq, expected_seq, faults>>

\* a receiver that takes a packet ahead of the expected one as the expected one
GBNReceiver_run_AcceptAhead(raw) ==
    /\ receiver_pc = "loop"
    /\ raw \in Framed(net_data)
    /\ net_data' = Consume(net_data, raw)
    /\ \E info \in {decode_packetGBN(raw)},
          last_good \in {Mask32(Dec(expectedseqnum))} :
           IF ~info.checksum_ok
           THEN /\ TransmitCtrl(make_ackGBN(last_good))
                /\ UNCHANGED <<delivered, expectedseqnum>>
           ELSE IF info.type # TYPE_DATA
           THEN UNCHANGED <<delivered, expectedseqnum, net_ctrl, faults>>
           ELSE IF ~Less(info.seq, expectedseqnum)
           THEN /\ delivered' = Append(delivered, info.payload)
                /\ TransmitCtrl(make_ackGBN(expectedseqnum))
                /\ expectedseqnum' = Mask32(Inc(expectedseqnum))
           ELSE /\ TransmitCtrl(make_ackGBN(last_good))
                /\ UNCHANGED <<delivered, expectedseqnum>>
    /\ UNCHANGED <<channelCfg, otherVars, receiver_pc, channel_sends, msgs, returned, pc, pkt, seq, expected_seq,
                   timerVars, base, nextseqnum, N, send_buffer>>

\* one iteration of GBNReceiver._run on the datagram raw
GBNReceiver_run(raw) ==
    /\ receiver_pc = "loop"
    /\ raw \in Framed(net_data)
    /\ net_data' = Consume(net_data, raw)
    /\ \E info \in {decode_packetGBN(raw)},
          last_good \in {Mask32(Dec(expectedseqnum))} :
           IF ~info.checksum_ok
           THEN /\ TransmitCtrl(make_ackGBN(last_good))
                /\ UNCHANGED <<delivered, expectedseqnum>>
           ELSE IF info.type # TYPE_DATA
           THEN UNCHANGED <<delivered, expectedseqnum, net_ctrl, faults>>
           ELSE IF info.seq = expectedseqnum
           THEN /\ delivered' = Append(delivered, info.payload)
                /\ TransmitCtrl(make_ackGBN(expectedseqnum))
                /\ expectedseqnum' = Mask32(Inc(expectedseqnum))
           ELSE /\ TransmitCtrl(make_ackGBN(last_good))
                /\ UNCHANGED <<delivered, expectedseqnum>>
    /\ UNCHANGED <<channelCfg, otherVars, receiver_pc, channel_sends, msgs, returned, pc, pkt, seq, expected_seq,
                   timerVars, base, nextseqnum, N, send_buffer>>

\* GBNSender and GBNReceiver with base = nextseqnum = expectedseqnum = n and
\* nothing in flight: after construction (0) or after n transfers
InitDOf(lossy, corrupting, longest) ==
    /\ variant = "D"
    /\ InitCommonOf(MsgLists(longest))
    /\ \E n \in StartSeqs, size \in WindowSizes :
          InitGBN(n, size) /\ InitTimer(n)
    /\ loss_rate = lossy
    /\ corrupt_rate = corrupting
    /\ seq = BigOf(0)
    /\ expected_seq = 0

InitD(lossy, corrupting) == InitDOf(lossy, corrupting, MaxMsgsGBN)

NextD ==
    \/ GBNSender_send
    \/ GBNSender_on_timeout
    \/ \E raw \in BagToSet(net_ctrl) : GBNSender_handle_incoming(raw)
    \/ GBNSender_timer_expired
    \/ \E raw \in BagToSet(net_data) : GBNReceiver_run(raw)

\* variant D over a channel that loses, corrupts, delays and reorders
InitDLossy == InitD(TRUE, TRUE)
SpecD == InitDLossy /\ [][NextD]_vars

\* The timer thread and both loops keep running, and the channel is fair, as
\* in FairC.
FairD ==
    /\ WF_vars(GBNSender_timer_expired)
    /\ WF_vars(GBNSender_on_timeout)
    /\ SF_vars(\E raw \in BagToSet(net_ctrl) : GBNSender_handle_incoming(raw))
    /\ SF_vars(\E ack \in {make_ackGBN(seq)} : GBNSender_handle_incoming(ack))
    /\ WF_vars(\E raw \in BagToSet(net_data) : GBNReceiver_run(raw))

\* one call to send, the sender constructed with the default N
InitDOneSend == InitDLossy /\ Len(msgs) = 1 /\ N = DefaultN
SpecDFair == InitDOneSend /\ [][NextD]_vars /\ FairD

\* an application that calls send for one payload after another, the sender
\* constructed with any of the window sizes, over a channel that loses,
\* delays and reorders packets
InitDSequential == InitDOf(TRUE, FALSE, MaxMsgs)
SpecDSequential == InitDSequential /\ [][NextD]_vars

\* GBNSender and GBNReceiver after 2^32 - 1 payloads were transferred over a
\* quiet channel (base = nextseqnum = expectedseqnum = 0xFFFFFFFF, nothing
\* buffered), and an application with two more payloads to send over a
\* channel that loses packets: the second is sent with sequence number 0
InitDWrap ==
    /\ variant = "D"
    /\ InitCommonOf([1..2 -> Payloads])
    /\ InitTimer(255)
    /\ \E last \in {Big(255, Radix - 1)}, size \in WindowSizes :
          /\ base = last
          /\ nextseqnum = last
          /\ N = size
          /\ send_buffer = <<>>
          /\ expectedseqnum = last
    /\ loss_rate = TRUE
    /\ corrupt_rate = FALSE
    /\ seq = BigOf(0)
    /\ expected_seq = 0

SpecDWrap == InitDWrap /\ [][NextD]_vars

(***************************************************************************)
(* The thread of threading.Timer next to the loop of send, variants C and  *)
(* D. Timer.run is                                                         *)
(*     self.finished.wait(self.interval)                                   *)
(*     if not self.finished.is_set(): self.function(...)                   *)
(* and the sender's thread may run between the test and the call.          *)
(***************************************************************************)
\* Timer.run of _timer or of a Timer that was replaced while armed: the
\* interval elapsed and finished is found clear
Timer_run ==
    /\ \/ /\ timer = "armed"
          /\ timer' = "called"
          /\ UNCHANGED replaced_timers
       \/ /\ replaced_timers.armed > 0
          /\ replaced_timers' = [armed |-> replaced_timers.armed - 1,
                                 called |-> replaced_timers.called + 1]
          /\ UNCHANGED timer
    /\ UNCHANGED <<channelCfg, otherVars, receiver_pc, channel_sends, gbnVars, msgs, returned, delivered, net_data,
                   net_ctrl, pc, pkt, seq, expected_seq, faults, timeout_event>>

\* Timer.run, of _timer or of a Timer that was replaced, calls
\* self.function, _timer_expired: _timeout_event.set()
Timer_function ==
    /\ \/ /\ timer \in TimerCalled
          /\ timer' = IF timer = "called" THEN "fired" ELSE "cancelled"
          /\ UNCHANGED replaced_timers
       \/ /\ replaced_timers.called > 0
          /\ replaced_timers' =
                [replaced_timers EXCEPT !.called = @ - 1]
          /\ UNCHANGED timer
    /\ timeout_event' = TRUE
    /\ UNCHANGED <<channelCfg, otherVars, receiver_pc, channel_sends, gbnVars, msgs, returned, delivered, net_data,
                   net_ctrl, pc, pkt, seq, expected_seq, faults>>

\* variants C and D over a channel that loses and corrupts nothing
InitThreads == InitC(FALSE, FALSE) \/ InitDOf(FALSE, FALSE, MaxMsgs)

NextThreads ==
    \/ variant = "C" /\ RDT30Sender_send
    \/ variant = "C" /\ RDT30Sender_timeout
    \/ variant = "C" /\ \E msg \in BagToSet(net_ctrl) : RDT30Sender_recv(msg)
    \/ variant = "C" /\ \E raw \in BagToSet(net_data) : RDT30Receiver_loop(raw)
    \/ variant = "D" /\ GBNSender_send
    \/ variant = "D" /\ GBNSender_on_timeout
    \/ variant = "D"
          /\ \E raw \in BagToSet(net_ctrl) : GBNSender_handle_incoming(raw)
    \/ variant = "D" /\ \E raw \in BagToSet(net_data) : GBNReceiver_run(raw)
    \/ Timer_run
    \/ Timer_function

SpecThreads == InitThreads /\ [][NextThreads]_vars

(***************************************************************************)
(* The four variants side by side, each over the channel that corrupts      *)
(* (and, where the variant has a timer, loses) packets.                     *)
(***************************************************************************)
InitAll == InitACorrupt \/ InitBCorrupt \/ InitCLossy \/ InitDLossy

NextAll ==
    \/ variant = "A" /\ NextA
    \/ variant = "B" /\ NextB
    \/ variant = "C" /\ NextC
    \/ variant = "D" /\ NextD

SpecAll == InitAll /\ [][NextAll]_vars

\* decode_packet of the variant in use
decode_packet(raw) ==
    CASE variant = "A" -> decode_packet20(raw)
      [] variant = "B" -> decode_packet21(raw)
      [] variant = "C" -> decode_packet30(raw)
      [] variant = "D" -> decode_packetGBN(raw)

\* expected_seq / expectedseqnum of the receiver of the variant in use
ExpectedSequence == IF variant = "D" THEN expectedseqnum ELSE expected_seq

\* e advanced by one, as the receiver of the variant in use advances it
NextSequence(e) ==
    CASE variant = "B" -> 1 - e
      [] variant = "C" -> (e + 1) % 256
      [] variant = "D" -> Mask32(Inc(e))

\* the packet the receiver of the variant in use passes to channel.send when
\* the checksum of what it received is wrong
ReplyToCorrupted ==
    CASE variant = "A" -> make_nak20
      [] variant = "B" -> make_nak21(expected_seq)
      [] variant = "C" -> make_nak30(expected_seq)
      [] variant = "D" -> make_ackGBN(Mask32(Dec(expectedseqnum)))

(***************************************************************************)
(* Datagrams shorter than the fixed header. The sockets are UDP sockets     *)
(* bound to an address: any peer may send them a datagram of any length.   *)
(***************************************************************************)
\* datagrams too short to hold the header of the variant in use: the first
\* bytes of an ACK
ShortDatagrams ==
    LET ack == CASE variant = "A" -> make_ack20
                 [] variant = "B" -> make_ack21(0)
                 [] variant = "C" -> make_ack30(0)
                 [] variant = "D" -> make_ackGBN(BigOf(0))
    IN  {SubSeq(ack, 1, n) : n \in 1..(HeaderSize(LayoutOf(variant)) - 1)}

\* a peer sends a short datagram to the receiver's or to the sender's socket
\* (one such datagram in flight at a time)
Foreign_datagram ==
    /\ Unframed(net_data) = {}
    /\ Unframed(net_ctrl) = {}
    /\ \E d \in ShortDatagrams :
          \/ net_data' = net_data (+) SetToBag({d}) /\ UNCHANGED net_ctrl
          \/ net_ctrl' = net_ctrl (+) SetToBag({d}) /\ UNCHANGED net_data
    /\ UNCHANGED <<channelCfg, otherVars, receiver_pc, channel_sends, gbnVars,
                   msgs, returned, delivered, pc, pkt, seq, expected_seq,
                   timerVars, faults>>

\* the receiver's loop takes a short datagram: decode_packet calls
\* struct.unpack on fewer bytes than the header, struct.error is raised and,
\* nothing in the loop catching it, ends the loop
Receiver_loop_struct_error ==
    /\ receiver_pc = "loop"
    /\ \E raw \in Unframed(net_data) : net_data' = Consume(net_data, raw)
    /\ receiver_pc' = "raised"
    /\ UNCHANGED <<channelCfg, otherVars, channel_sends, gbnVars, msgs,
                   returned, delivered, net_ctrl, pc, pkt, seq, expected_seq,
                   timerVars, faults>>

\* the sender is at the recvfrom of send (of _handle_incoming in variant D)
SenderReceiving ==
    CASE variant \in {"A", "B"} -> pc = "wait"
      [] variant = "C" -> pc = "poll"
      [] variant = "D" -> GBNSender_recvfrom

\* the sender's recvfrom returns a short datagram: decode_packet raises
\* struct.error, which ends the call to send (the except clauses around
\* recvfrom name socket.timeout only, and decode_packet is outside them)
Sender_send_struct_error ==
    /\ SenderReceiving
    /\ \E raw \in Unframed(net_ctrl) : net_ctrl' = Consume(net_ctrl, raw)
    /\ pc' = "raised"
    /\ UNCHANGED <<channelCfg, otherVars, receiver_pc, channel_sends, gbnVars,
                   msgs, returned, delivered, net_data, pkt, seq, expected_seq,
                   timerVars, faults>>

\* the four variants over a channel that neither loses nor corrupts
InitFraming ==
    \/ InitA(FALSE, FALSE)
    \/ InitB(FALSE, FALSE)
    \/ InitC(FALSE, FALSE)
    \/ InitD(FALSE, FALSE)

NextFraming ==
    \/ NextAll
    \/ Foreign_datagram
    \/ Receiver_loop_struct_error
    \/ Sender_send_struct_error

SpecFraming == InitFraming /\ [][NextFraming]_vars

\* the caller of GBNSender.send catches the struct.error that ended the call
\* and calls send again for the same payload: the packet of the call that
\* raised is still in send_buffer, or was acknowledged since, and is counted
\* by nextseqnum, which is therefore the number of calls that returned plus
\* the number that raised after line 147 (at most MaxRaised here)
GBNSender_send_again ==
    /\ variant = "D"
    /\ pc = "raised"
    /\ ~AtLeast(nextseqnum, BigOf(returned), MaxRaised + 1)
    /\ pc' = "idle"
    /\ UNCHANGED <<channelCfg, otherVars, receiver_pc, channel_sends, gbnVars,
                   msgs, returned, delivered, net_data, net_ctrl, pkt, seq,
                   expected_seq, timerVars, faults>>

\* variant D after construction, over a channel that loses, delays and
\* reorders packets, with peers that send short datagrams and a caller that
\* calls send again after an exception
InitDResumed == InitDOf(TRUE, FALSE, MaxMsgsGBN) /\ base = BigOf(0)

NextDResumed ==
    \/ NextD
    \/ Foreign_datagram
    \/ Receiver_loop_struct_error
    \/ Sender_send_struct_error
    \/ GBNSender_send_again

SpecDResumed == InitDResumed /\ [][NextDResumed]_vars

(***************************************************************************)
(* The codec of utils/packet.py: three layouts, "20" [type | checksum |     *)
(* payload], "21" [type | seq | checksum | payload] and "gbn" [type |       *)
(* seq (4 bytes) | checksum | payload].                                     *)
(***************************************************************************)
make_packet_20(pkt_type, payload) ==
    LET to_checksum == <<pkt_type>> \o payload
        cs == compute_checksum(to_checksum)
    IN  <<pkt_type>> \o PackH(cs) \o payload

\* a decode_packet_20 that computes the checksum of the type byte alone
decode_packet_20_TypeOnly(raw) ==
    [type |-> raw[1],
     checksum_ok |-> UnpackH(raw[2], raw[3]) = compute_checksum(<<raw[1]>>),
     payload |-> SubSeq(raw, 4, Len(raw))]

decode_packet_20(raw) ==
    LET pkt_type == raw[1]
        recv_cs == UnpackH(raw[2], raw[3])
        payload == SubSeq(raw, 4, Len(raw))
        calc_cs == compute_checksum(<<pkt_type>> \o payload)
    IN  [type |-> pkt_type,
         checksum_ok |-> recv_cs = calc_cs,
         payload |-> payload]

make_packet_21(pkt_type, sq, payload) ==
    LET to_checksum == <<pkt_type, sq>> \o payload
        cs == compute_checksum(to_checksum)
    IN  <<pkt_type, sq>> \o PackH(cs) \o payload

\* a decode_packet_21 that returns the type byte as the sequence number
decode_packet_21_SeqFromType(raw) ==
    [type |-> raw[1],
     seq |-> raw[1],
     checksum_ok |->
         UnpackH(raw[3], raw[4])
             = compute_checksum(<<raw[1], raw[2]>> \o SubSeq(raw, 5, Len(raw))),
     payload |-> SubSeq(raw, 5, Len(raw))]

decode_packet_21(raw) ==
    LET pkt_type == raw[1]
        sq == raw[2]
        recv_cs == UnpackH(raw[3], raw[4])
        payload == SubSeq(raw, 5, Len(raw))
        calc_cs == compute_checksum(<<pkt_type, sq>> \o payload)
    IN  [type |-> pkt_type,
         seq |-> sq,
         checksum_ok |-> recv_cs = calc_cs,
         payload |-> payload]

make_packet_gbn(pkt_type, sq, payload) ==
    LET seq_bytes == to_bytes4(sq)
        to_checksum == <<pkt_type>> \o seq_bytes \o payload
        cs == compute_checksum(to_checksum)
    IN  <<pkt_type>> \o to_bytes4(sq) \o PackH(cs) \o payload

decode_packet_gbn(raw) ==
    LET pkt_type == raw[1]
        sq == from_bytes4(SubSeq(raw, 2, 5))
        recv_cs == UnpackH(raw[6], raw[7])
        payload == SubSeq(raw, 8, Len(raw))
        calc_cs == compute_checksum(<<pkt_type>> \o to_bytes4(sq) \o payload)
    IN  [type |-> pkt_type,
         seq |-> sq,
         checksum_ok |-> recv_cs = calc_cs,
         payload |-> payload]

\* the packet kinds
Kinds == {TYPE_DATA, TYPE_ACK, TYPE_NAK}

\* sequence numbers a packet of the layout is built with: none (0 stands for
\* it), one byte, four bytes
CodecSeqs(layout) ==
    CASE layout = "20" -> {0}
      [] layout = "21" -> {0, 1, 127, 255}
      [] layout = "gbn" -> {BigOf(0), BigOf(127), Big(1, 0), Big(255, Radix - 1)}

\* payloads a packet is built with: the byte strings of CodecBytes up to
\* MaxPayloadLen bytes long
CodecPayloads == UNION {[1..n -> CodecBytes] : n \in 0..MaxPayloadLen}

\* make_packet_20 / make_packet_21 / make_packet_gbn
encode(args) ==
    CASE args.layout = "20" -> make_packet_20(args.type, args.payload)
      [] args.layout = "21" -> make_packet_21(args.type, args.seq, args.payload)
      [] args.layout = "gbn" ->
             make_packet_gbn(args.type, args.seq, args.payload)

\* decode_packet_20 / decode_packet_21 / decode_packet_gbn
decode(layout, raw) ==
    CASE layout = "20" -> decode_packet_20(raw)
      [] layout = "21" -> decode_packet_21(raw)
      [] layout = "gbn" -> decode_packet_gbn(raw)

\* the protocol variants not in use
RDTUnused ==
    /\ loss_rate = FALSE
    /\ corrupt_rate = FALSE
    /\ msgs = <<>>
    /\ returned = 0
    /\ delivered = <<>>
    /\ net_data = EmptyBag
    /\ net_ctrl = EmptyBag
    /\ pc = "idle"
    /\ pkt = <<>>
    /\ seq = 0
    /\ expected_seq = 0
    /\ timeout_event = FALSE
    /\ timer = "none"
    /\ replaced_timers = [armed |-> 0, called |-> 0]
    /\ InitGBN(0, DefaultN)
    /\ faults = 0
    /\ channel_sends = <<>>
    /\ receiver_pc = "loop"

\* a caller is about to build a packet
InitCodec ==
    /\ variant = "none"
    /\ RDTUnused
    /\ \E layout \in Layouts :
       \E kind \in Kinds, sq \in CodecSeqs(layout), payload \in CodecPayloads :
           codec_args = [layout |-> layout, type |-> kind, seq |-> sq,
                         payload |-> payload]
    /\ codec_raw = <<>>
    /\ codec_flips = 0
    /\ codec_info = <<>>
    /\ RemetenteUnused
    /\ TCPUnused

\* make_packet_*(pkt_type, seq, payload)
Codec_make_packet ==
    /\ codec_raw = <<>>
    /\ codec_raw' = encode(codec_args)
    /\ UNCHANGED <<rdtVars, variant, remetenteVars, tcpVars, codec_args, codec_flips,
                   codec_info>>

\* one iteration of the loop of UnreliableChannel._corrupt_packet on the
\* packet; num_corruptions is at most MaxCorruptions
Channel_corrupt_byte ==
    /\ codec_raw # <<>>
    /\ codec_info = <<>>
    /\ codec_flips < MaxCorruptions
    /\ \E idx \in 1..Len(codec_raw) : codec_raw' = FlipByte(codec_raw, idx)
    /\ codec_flips' = codec_flips + 1
    /\ UNCHANGED <<rdtVars, variant, remetenteVars, tcpVars, codec_args,
                   codec_info>>

\* decode_packet_*(raw)
Codec_decode_packet ==
    /\ codec_raw # <<>>
    /\ codec_info = <<>>
    /\ codec_info' = decode(codec_args.layout, codec_raw)
    /\ UNCHANGED <<rdtVars, variant, remetenteVars, tcpVars, codec_args, codec_raw,
                   codec_flips>>

NextCodec ==
    \/ Codec_make_packet
    \/ Channel_corrupt_byte
    \/ Codec_decode_packet

SpecCodec == InitCodec /\ [][NextCodec]_vars

\* decode returned the kind, sequence number and payload make_packet was given
SameFields ==
    /\ codec_info.type = codec_args.type
    /\ codec_args.layout # "20" => codec_info.seq = codec_args.seq
    /\ codec_info.payload = codec_args.payload

(***************************************************************************)
(* fase1/rdt20-remetente.py: RDT20Remetente.enviar_dados, the sender with   *)
(* a budget of transmissions. What recvfrom gives is any datagram a peer    *)
(* may send to the socket, as the list of its characters; sendto succeeds.  *)
(***************************************************************************)
\* RDT20Packet.MAX_DATA_SIZE
MAX_DATA_SIZE == 1000
\* max_tentativas of enviar_dados
max_tentativas == 3
\* len(dados) of the calls
DadosLens == {1, MAX_DATA_SIZE, MAX_DATA_SIZE + 1}
\* socket.timeout raised by recvfrom (no datagram: -1 is no byte)
Timeout == <<-1>>
\* b'ACK', b'NAK' and b'OK'
ACK == <<65, 67, 75>>
NAK == <<78, 65, 75>>
OK == <<79, 75>>
\* the datagrams recvfrom gives, as lists of bytes: ACK0, ACK1, ACK, ACK10,
\* ACK1x, NAK, OK, 'ACK 1', 'ACK+1', 'ACK-1', 'ACK-0', 'ACK1_0', 'ACK1_',
\* 'ACK1\n', ACK followed by the UTF-8 of U+0661 (ARABIC-INDIC DIGIT ONE),
\* ACK followed by the byte 0xFF (not UTF-8), 'ACK1ACK0'
Respostas ==
    {ACK \o <<48>>, ACK \o <<49>>, ACK, ACK \o <<49, 48>>,
     ACK \o <<49, 120>>, NAK, OK, ACK \o <<32, 49>>, ACK \o <<43, 49>>,
     ACK \o <<45, 49>>, ACK \o <<45, 48>>, ACK \o <<49, 95, 48>>,
     ACK \o <<49, 95>>, ACK \o <<49, 10>>, ACK \o <<217, 161>>,
     ACK \o <<255>>, ACK \o <<49>> \o ACK \o <<48>>}

\* bytes.startswith
startswith(bytes, prefix) ==
    /\ Len(bytes) >= Len(prefix)
    /\ SubSeq(bytes, 1, Len(prefix)) = prefix

\* bytes.decode(): the code points of a UTF-8 text, {text}, or {} when the
\* bytes are not UTF-8 (UnicodeDecodeError, a ValueError)
RECURSIVE decode_utf8(_)
decode_utf8(bytes) ==
    IF bytes = <<>> THEN {<<>>}
    ELSE LET b1 == bytes[1]
             n == IF b1 < 128 THEN 1
                  ELSE IF b1 \in 194..223 THEN 2
                  ELSE IF b1 \in 224..239 THEN 3
                  ELSE IF b1 \in 240..244 THEN 4
                  ELSE 0
             second == CASE b1 = 224 -> 160..191
                         [] b1 = 237 -> 128..159
                         [] b1 = 240 -> 144..191
                         [] b1 = 244 -> 128..143
                         [] OTHER -> 128..191
             lead == CASE n = 2 -> b1 - 192
                       [] n = 3 -> b1 - 224
                       [] n = 4 -> b1 - 240
                       [] OTHER -> b1
         IN  IF n = 0 \/ Len(bytes) < n THEN {}
             ELSE IF n >= 2 /\ bytes[2] \notin second THEN {}
             ELSE IF \E k \in 3..n : bytes[k] \notin 128..191 THEN {}
             ELSE LET point == IF n = 1 THEN lead
                               ELSE IF n = 2
                               THEN lead * 64 + (bytes[2] - 128)
                               ELSE IF n = 3
                               THEN lead * 4096 + (bytes[2] - 128) * 64
                                    + (bytes[3] - 128)
                               ELSE lead * 262144 + (bytes[2] - 128) * 4096
                                    + (bytes[3] - 128) * 64
                                    + (bytes[4] - 128)
                  IN  {<<point>> \o rest :
                          rest \in decode_utf8(SubSeq(bytes, n + 1,
                                                      Len(bytes)))}

\* the code points of the digits 0 of the decimal digits of Unicode (each is
\* followed by its digits 1 to 9), as unicodedata of Python 3.11 has them
DecimalZeros ==
    {48, 1632, 1776, 1984, 2406, 2534, 2662, 2790, 2918, 3046, 3174,
     3302, 3430, 3558, 3664, 3792, 3872, 4160, 4240, 6112, 6160, 6470,
     6608, 6784, 6800, 6992, 7088, 7232, 7248, 42528, 43216, 43264,
     43472, 43504, 43600, 44016, 65296, 66720, 68912, 69734, 69872,
     69942, 70096, 70384, 70736, 70864, 71248, 71360, 71472, 71904,
     72016, 72784, 73040, 73120, 92768, 92864, 93008, 120782, 120792,
     120802, 120812, 120822, 123200, 123632, 125264, 130032}
\* the code points beyond ASCII that str.isspace holds for
UnicodeSpaces ==
    {133, 160, 5760} \cup (8192..8202) \cup {8232, 8233, 8239, 8287, 12288}
\* the ASCII characters int skips before and after the number
AsciiSpaces == {9, 10, 11, 12, 13, 32}

\* what int makes of the text before parsing it: a character beyond ASCII
\* becomes ' ' if it is a space, its ASCII digit if it is a decimal digit,
\* and '?' otherwise
TransformDecimalAndSpaceToASCII(text) ==
    [i \in 1..Len(text) |->
        IF text[i] < 128 THEN text[i]
        ELSE IF text[i] \in UnicodeSpaces THEN 32
        ELSE IF \E z \in DecimalZeros : text[i] \in z..(z + 9)
        THEN 48 + text[i]
                - (CHOOSE z \in DecimalZeros : text[i] \in z..(z + 9))
        ELSE 63]

\* the number a list of ASCII digits and underscores writes
RECURSIVE DigitsValue(_)
DigitsValue(body) ==
    IF body = <<>> THEN 0
    ELSE IF body[Len(body)] = 95
    THEN DigitsValue(SubSeq(body, 1, Len(body) - 1))
    ELSE 10 * DigitsValue(SubSeq(body, 1, Len(body) - 1))
         + (body[Len(body)] - 48)

\* int(text): {n} when it gives the integer n, {} when it raises ValueError.
\* The text may have spaces around the number, a sign before it and single
\* underscores between its digits.
int(text) ==
    LET t == TransformDecimalAndSpaceToASCII(text)
        inside == {i \in 1..Len(t) : t[i] \notin AsciiSpaces}
        first == CHOOSE i \in inside : \A k \in inside : i <= k
        last == CHOOSE i \in inside : \A k \in inside : k <= i
        signed == t[first] \in {43, 45}
        body == SubSeq(t, IF signed THEN first + 1 ELSE first, last)
    IN  IF inside = {} THEN {}
        ELSE IF body = <<>> THEN {}
        ELSE IF \E k \in 1..Len(body) :
                   /\ body[k] \notin 48..57
                   /\ ~(/\ body[k] = 95
                        /\ k > 1
                        /\ k < Len(body)
                        /\ body[k - 1] \in 48..57)
        THEN {}
        ELSE {IF signed /\ t[first] = 45 THEN 0 - DigitsValue(body)
              ELSE DigitsValue(body)}

\* int(resposta.decode().split('ACK')[1]) for a resposta that starts with
\* 'ACK': {n} when it gives the integer n, {} when it raises ValueError (the
\* bytes are not UTF-8, or int refuses the text between the first 'ACK' and
\* the next one, or the end)
ack_seq(bytes) ==
    IF decode_utf8(bytes) = {} THEN {}
    ELSE LET decoded == CHOOSE text \in decode_utf8(bytes) : TRUE
             rest == SubSeq(decoded, 4, Len(decoded))
             again == {i \in 1..Len(rest) :
                          startswith(SubSeq(rest, i, Len(rest)), ACK)}
             text == IF again = {} THEN rest
                     ELSE SubSeq(rest, 1,
                                 (CHOOSE i \in again :
                                     \A k \in again : i <= k) - 1)
         IN  int(text)

\* enviar_dados without the test ack_seq == self.seq_num
AckAceito_AnySeq(bytes, current) == startswith(bytes, ACK)
\* the tests of enviar_dados that end the call with True: the answer starts
\* with 'ACK' and either ack_seq == self.seq_num or the except branch is taken
AckAceito(bytes, current) ==
    /\ startswith(bytes, ACK)
    /\ ack_seq(bytes) \subseteq {current}

\* enviar_dados(dados) up to the test of the loop
enviar_dados_call ==
    /\ enviar_pc = "idle"
    /\ Len(retorno) < MaxCalls
    /\ \E size \in DadosLens :
        /\ chamada' = [dados |-> size, seq_num |-> seq_num,
                       esperando_ack |-> esperando_ack]
        /\ IF size > MAX_DATA_SIZE
           THEN /\ retorno' = Append(retorno, FALSE)
                /\ UNCHANGED <<esperando_ack, enviar_pc>>
           ELSE /\ esperando_ack' = TRUE
                /\ enviar_pc' = "while"
                /\ UNCHANGED retorno
    /\ tentativa' = 0
    /\ sendto_calls' = <<>>
    /\ resposta' = <<>>
    /\ UNCHANGED <<rdtVars, variant, codecVars, tcpVars, seq_num>>

\* the test of the loop, then either tentativa += 1 and sendto, which
\* transmits the packet or raises an exception that ends the call with
\* False (esperando_ack left as it is), or the end of the call after the loop
enviar_dados_while ==
    /\ enviar_pc = "while"
    /\ IF tentativa < max_tentativas /\ esperando_ack
       THEN /\ tentativa' = tentativa + 1
            /\ \/ /\ sendto_calls' = Append(sendto_calls, chamada.seq_num)
                  /\ enviar_pc' = "recvfrom"
                  /\ UNCHANGED <<esperando_ack, retorno>>
               \/ /\ retorno' = Append(retorno, FALSE)
                  /\ enviar_pc' = "idle"
                  /\ UNCHANGED <<esperando_ack, sendto_calls>>
       ELSE /\ esperando_ack' = FALSE
            /\ retorno' = Append(retorno, FALSE)
            /\ enviar_pc' = "idle"
            /\ UNCHANGED <<tentativa, sendto_calls>>
    /\ UNCHANGED <<rdtVars, variant, codecVars, tcpVars, seq_num, chamada,
                   resposta>>

\* recvfrom returns or raises socket.timeout, and the answer is processed
enviar_dados_recvfrom ==
    /\ enviar_pc = "recvfrom"
    /\ \E answer \in Respostas \cup {Timeout} :
        /\ resposta' = answer
        /\ IF answer # Timeout /\ AckAceito(answer, seq_num)
           THEN /\ esperando_ack' = FALSE
                /\ seq_num' = 1 - seq_num
                /\ retorno' = Append(retorno, TRUE)
                /\ enviar_pc' = "idle"
           ELSE /\ enviar_pc' = "while"
                /\ UNCHANGED <<esperando_ack, seq_num, retorno>>
    /\ UNCHANGED <<rdtVars, variant, codecVars, tcpVars, chamada, tentativa,
                   sendto_calls>>

InitRemetente ==
    /\ variant = "none"
    /\ RDTUnused
    /\ CodecUnused
    /\ RemetenteUnused
    /\ TCPUnused

NextRemetente ==
    \/ enviar_dados_call
    \/ enviar_dados_while
    \/ enviar_dados_recvfrom

SpecRemetente == InitRemetente /\ [][NextRemetente]_vars

(***************************************************************************)
(* fase3/TCPSocket.py: the three-way handshake of SimpleTCPSocket.connect   *)
(* (the "client") and SimpleTCPSocket.accept (the "server", after listen).  *)
(* No datagram is lost, corrupted or reordered: what one socket sends       *)
(* joins the queue of the other. The deadline of a call may pass at any    *)
(* pass of its loop, the first included, whatever the other side is doing   *)
(* and whatever waits in the queue.                                         *)
(***************************************************************************)
FLAG_SYN == 2
FLAG_ACK == 16
\* the values of random.randint(0, 1000) the sockets are constructed with
ISNs == {0, 1000}
\* flags & flag
HasFlag(flags, flag) == (flags \div flag) % 2 = 1

\* client = SimpleTCPSocket(port); server = SimpleTCPSocket(port);
\* server.listen()
InitHandshake ==
    /\ variant = "none"
    /\ RDTUnused
    /\ CodecUnused
    /\ RemetenteUnused
    /\ tcp_state = [client |-> "CLOSED", server |-> "LISTEN"]
    /\ \E c \in ISNs, s \in ISNs : tcp_seq_num = [client |-> c, server |-> s]
    /\ tcp_ack_num = [client |-> 0, server |-> 0]
    /\ tcp_peer_address = [client |-> "None", server |-> "None"]
    /\ tcp_pc = [client |-> "start", server |-> "start"]
    /\ tcp_recv = [client |-> <<>>, server |-> <<>>]
    /\ tcp_syn_seq = 0
    /\ tcp_syns = 0

\* connect(dest_address) up to its loop
connect_call ==
    /\ tcp_pc.client = "start"
    /\ tcp_peer_address' = [tcp_peer_address EXCEPT !.client = "server"]
    /\ tcp_state' = [tcp_state EXCEPT !.client = "SYN_SENT"]
    /\ tcp_syn_seq' = tcp_seq_num.client
    /\ tcp_pc' = [tcp_pc EXCEPT !.client = "loop"]
    /\ UNCHANGED <<rdtVars, variant, codecVars, remetenteVars, tcp_seq_num,
                   tcp_ack_num, tcp_recv, tcp_syns>>

\* the loop of connect at time.time() >= resend_at: the first pass, and a
\* pass every 0.5 s until a SYN-ACK has been taken
connect_sendto_syn ==
    /\ tcp_pc.client = "loop"
    /\ tcp_syns < MaxSyns
    /\ tcp_recv' = [tcp_recv EXCEPT !.server =
                       Append(@, [from |-> "client", seq |-> tcp_syn_seq,
                                  ack |-> 0, flags |-> FLAG_SYN])]
    /\ tcp_syns' = tcp_syns + 1
    /\ UNCHANGED <<rdtVars, variant, codecVars, remetenteVars, tcp_state,
                   tcp_seq_num, tcp_ack_num, tcp_peer_address, tcp_pc,
                   tcp_syn_seq>>

\* the loop of connect when recvfrom returns a datagram
connect_recvfrom ==
    /\ tcp_pc.client = "loop"
    /\ tcp_syns >= 1
    /\ tcp_recv.client # <<>>
    /\ LET segment == Head(tcp_recv.client)
           rest == [tcp_recv EXCEPT !.client = Tail(@)]
       IN  IF /\ segment.from = tcp_peer_address.client
              /\ HasFlag(segment.flags, FLAG_SYN)
              /\ HasFlag(segment.flags, FLAG_ACK)
              /\ segment.ack = tcp_syn_seq + 1
           THEN /\ tcp_ack_num' = [tcp_ack_num EXCEPT !.client = segment.seq + 1]
                /\ tcp_recv' = [rest EXCEPT !.server =
                                   Append(@, [from |-> "client",
                                              seq |-> tcp_syn_seq + 1,
                                              ack |-> segment.seq + 1,
                                              flags |-> FLAG_ACK])]
                /\ tcp_seq_num' = [tcp_seq_num EXCEPT !.client = tcp_syn_seq + 1]
                /\ tcp_state' = [tcp_state EXCEPT !.client = "ESTABLISHED"]
                /\ tcp_pc' = [tcp_pc EXCEPT !.client = "returned"]
           ELSE /\ tcp_recv' = rest
                /\ UNCHANGED <<tcp_ack_num, tcp_seq_num, tcp_state, tcp_pc>>
    /\ UNCHANGED <<rdtVars, variant, codecVars, remetenteVars,
                   tcp_peer_address, tcp_syn_seq, tcp_syns>>

\* the test of the loop of connect finds time.time() - start >= timeout, at
\* any pass, the first included (no SYN has been sent then)
connect_TimeoutError ==
    /\ tcp_pc.client = "loop"
    /\ tcp_pc' = [tcp_pc EXCEPT !.client = "TimeoutError"]
    /\ UNCHANGED <<rdtVars, variant, codecVars, remetenteVars, tcp_state,
                   tcp_seq_num, tcp_ack_num, tcp_peer_address, tcp_recv,
                   tcp_syn_seq, tcp_syns>>

\* accept() up to its loop
accept_call ==
    /\ tcp_pc.server = "start"
    /\ tcp_state.server = "LISTEN"
    /\ tcp_pc' = [tcp_pc EXCEPT !.server = "loop"]
    /\ UNCHANGED <<rdtVars, variant, codecVars, remetenteVars, tcp_state,
                   tcp_seq_num, tcp_ack_num, tcp_peer_address, tcp_recv,
                   tcp_syn_seq, tcp_syns>>

\* the loop of accept when recvfrom returns a datagram
accept_recvfrom ==
    /\ tcp_pc.server = "loop"
    /\ tcp_recv.server # <<>>
    /\ LET segment == Head(tcp_recv.server)
           rest == [tcp_recv EXCEPT !.server = Tail(@)]
       IN  IF HasFlag(segment.flags, FLAG_SYN)
           THEN /\ tcp_peer_address' =
                       [tcp_peer_address EXCEPT !.server = segment.from]
                /\ tcp_ack_num' = [tcp_ack_num EXCEPT !.server = segment.seq + 1]
                /\ tcp_recv' = [rest EXCEPT ![segment.from] =
                                   Append(@, [from |-> "server",
                                              seq |-> tcp_seq_num.server,
                                              ack |-> segment.seq + 1,
                                              flags |-> FLAG_SYN + FLAG_ACK])]
                /\ tcp_seq_num' = [tcp_seq_num EXCEPT !.server = @ + 1]
                /\ UNCHANGED <<tcp_state, tcp_pc>>
           ELSE IF /\ HasFlag(segment.flags, FLAG_ACK)
                   /\ tcp_peer_address.server # "None"
                   /\ segment.from = tcp_peer_address.server
                   /\ segment.ack = tcp_seq_num.server
           THEN /\ tcp_state' = [tcp_state EXCEPT !.server = "ESTABLISHED"]
                /\ tcp_pc' = [tcp_pc EXCEPT !.server = "returned"]
                /\ tcp_recv' = rest
                /\ UNCHANGED <<tcp_peer_address, tcp_ack_num, tcp_seq_num>>
           ELSE /\ tcp_recv' = rest
                /\ UNCHANGED <<tcp_peer_address, tcp_ack_num, tcp_seq_num,
                               tcp_state, tcp_pc>>
    /\ UNCHANGED <<rdtVars, variant, codecVars, remetenteVars, tcp_syn_seq,
                   tcp_syns>>

\* the loop of accept ends at time.time() - start >= timeout
accept_TimeoutError ==
    /\ tcp_pc.server = "loop"
    /\ tcp_pc' = [tcp_pc EXCEPT !.server = "TimeoutError"]
    /\ UNCHANGED <<rdtVars, variant, codecVars, remetenteVars, tcp_state,
                   tcp_seq_num, tcp_ack_num, tcp_peer_address, tcp_recv,
                   tcp_syn_seq, tcp_syns>>

NextHandshake ==
    \/ connect_call
    \/ connect_sendto_syn
    \/ connect_recvfrom
    \/ connect_TimeoutError
    \/ accept_call
    \/ accept_recvfrom
    \/ accept_TimeoutError

\* both threads run: a step that stays possible is taken
SpecHandshakeFair ==
    InitHandshake /\ [][NextHandshake]_vars /\ WF_vars(NextHandshake)

(***************************************************************************)
(* fase3/TCPSocket.py: SimpleTCPSocket.close on the two sockets, after a    *)
(* handshake that completed, after one that left the server in LISTEN, or   *)
(* with no handshake at all. Datagrams are taken from the socket in any     *)
(* order, and the deadline of close may elapse at any pass of its loop. A   *)
(* datagram sent to a socket that close has closed is dropped; one sent to  *)
(* a socket in TIME_WAIT, still open, is queued and stays in the queue.     *)
(* The passive path of close starts from the state CLOSE_WAIT, which no     *)
(* statement outside that path sets.                                        *)
(***************************************************************************)
FLAG_FIN == 1
Sockets == {"client", "server"}
Peer(x) == IF x = "client" THEN "server" ELSE "client"
\* close with every state let through its first test
ClosingStates_All ==
    {"ESTABLISHED", "CLOSE_WAIT", "FIN_WAIT_1", "FIN_WAIT_2", "LISTEN", "CLOSED"}
\* the states the first test of close lets through
ClosingStates == {"ESTABLISHED", "CLOSE_WAIT", "FIN_WAIT_1", "FIN_WAIT_2"}

InitClose ==
    /\ variant = "none"
    /\ RDTUnused
    /\ CodecUnused
    /\ RemetenteUnused
    /\ tcp_pc = [client |-> "idle", server |-> "idle"]
    /\ tcp_syn_seq = 0
    /\ tcp_syns = 0
    /\ \E c \in ISNs, s \in ISNs :
        \/ /\ tcp_state = [client |-> "ESTABLISHED", server |-> "ESTABLISHED"]
           /\ tcp_seq_num = [client |-> c + 1, server |-> s + 1]
           /\ tcp_ack_num = [client |-> s + 1, server |-> c + 1]
           /\ tcp_peer_address = [client |-> "server", server |-> "client"]
           /\ tcp_recv = [client |-> <<>>, server |-> <<>>]
        \* accept answered two SYNs and refused the final ACK: its second
        \* SYN-ACK is still in the client's socket
        \/ /\ tcp_state = [client |-> "ESTABLISHED", server |-> "LISTEN"]
           /\ tcp_seq_num = [client |-> c + 1, server |-> s + 2]
           /\ tcp_ack_num = [client |-> s + 1, server |-> c + 1]
           /\ tcp_peer_address = [client |-> "server", server |-> "client"]
           /\ tcp_recv = [client |-> <<[from |-> "server", seq |-> s + 1,
                                        ack |-> c + 1,
                                        flags |-> FLAG_SYN + FLAG_ACK]>>,
                          server |-> <<>>]
        \/ /\ tcp_state = [client |-> "CLOSED", server |-> "LISTEN"]
           /\ tcp_seq_num = [client |-> c, server |-> s]
           /\ tcp_ack_num = [client |-> 0, server |-> 0]
           /\ tcp_peer_address = [client |-> "None", server |-> "None"]
           /\ tcp_recv = [client |-> <<>>, server |-> <<>>]

\* udp_socket.sendto(segment, peer_address) by x
SendTo(queues, x, segment) ==
    IF tcp_state[Peer(x)] = "CLOSED" THEN queues
    ELSE [queues EXCEPT ![Peer(x)] = Append(@, segment)]

\* x.close() up to the loop of the active path (from ESTABLISHED) or to the
\* last loop of the passive path (from CLOSE_WAIT), or to its return
close_call(x) ==
    /\ tcp_pc[x] \in {"idle", "returned"}
    /\ IF tcp_state[x] \notin ClosingStates
       THEN /\ tcp_state' = [tcp_state EXCEPT ![x] = "CLOSED"]
            /\ tcp_pc' = [tcp_pc EXCEPT ![x] = "returned"]
            /\ UNCHANGED <<tcp_recv, tcp_seq_num>>
       ELSE IF tcp_state[x] = "ESTABLISHED"
       THEN /\ tcp_recv' = SendTo(tcp_recv, x,
                               [from |-> x, seq |-> tcp_seq_num[x],
                                ack |-> tcp_ack_num[x], flags |-> FLAG_FIN])
            /\ tcp_state' = [tcp_state EXCEPT ![x] = "FIN_WAIT_1"]
            /\ tcp_seq_num' = [tcp_seq_num EXCEPT ![x] = @ + 1]
            /\ tcp_pc' = [tcp_pc EXCEPT ![x] = "close"]
       ELSE IF tcp_state[x] = "CLOSE_WAIT"
       THEN /\ tcp_recv' = SendTo(tcp_recv, x,
                               [from |-> x, seq |-> tcp_seq_num[x],
                                ack |-> tcp_ack_num[x], flags |-> FLAG_FIN])
            /\ tcp_seq_num' = [tcp_seq_num EXCEPT ![x] = @ + 1]
            /\ tcp_state' = [tcp_state EXCEPT ![x] = "LAST_ACK"]
            /\ tcp_pc' = [tcp_pc EXCEPT ![x] = "last_ack"]
       ELSE \* FIN_WAIT_1, FIN_WAIT_2: neither path is taken
            /\ tcp_pc' = [tcp_pc EXCEPT ![x] = "returned"]
            /\ UNCHANGED <<tcp_state, tcp_recv, tcp_seq_num>>
    /\ UNCHANGED <<rdtVars, variant, codecVars, remetenteVars, tcp_ack_num,
                   tcp_peer_address, tcp_syn_seq, tcp_syns>>

\* the loop of the active path, or the last loop of the passive path, when
\* recvfrom returns a datagram. The active path answers the FIN of the peer
\* with an ACK, sets TIME_WAIT and sleeps, its socket still open; the
\* passive path ends on the ACK of its FIN.
close_recvfrom(x) ==
    /\ tcp_pc[x] \in {"close", "last_ack"}
    /\ \E i \in 1..Len(tcp_recv[x]) :
        LET segment == tcp_recv[x][i]
            rest == [tcp_recv EXCEPT ![x] =
                        SubSeq(@, 1, i - 1) \o SubSeq(@, i + 1, Len(@))]
        IN  IF /\ tcp_peer_address[x] # "None"
               /\ segment.from # tcp_peer_address[x]
            THEN /\ tcp_recv' = rest
                 /\ UNCHANGED <<tcp_state, tcp_ack_num, tcp_pc>>
            ELSE IF /\ HasFlag(segment.flags, FLAG_ACK)
                    /\ segment.ack = tcp_seq_num[x]
            THEN IF tcp_pc[x] = "last_ack"
                 THEN /\ tcp_state' = [tcp_state EXCEPT ![x] = "CLOSED"]
                      /\ tcp_pc' = [tcp_pc EXCEPT ![x] = "returned"]
                      /\ tcp_recv' = rest
                      /\ UNCHANGED tcp_ack_num
                 ELSE /\ tcp_state' =
                            [tcp_state EXCEPT ![x] =
                                IF @ = "FIN_WAIT_1" THEN "FIN_WAIT_2" ELSE @]
                      /\ tcp_recv' = rest
                      /\ UNCHANGED <<tcp_ack_num, tcp_pc>>
            ELSE IF tcp_pc[x] = "close" /\ HasFlag(segment.flags, FLAG_FIN)
            THEN /\ tcp_ack_num' = [tcp_ack_num EXCEPT ![x] = segment.seq + 1]
                 /\ tcp_recv' = SendTo(rest, x,
                                    [from |-> x, seq |-> tcp_seq_num[x],
                                     ack |-> segment.seq + 1,
                                     flags |-> FLAG_ACK])
                 /\ tcp_state' = [tcp_state EXCEPT ![x] = "TIME_WAIT"]
                 /\ tcp_pc' = [tcp_pc EXCEPT ![x] = "time_wait"]
            ELSE /\ tcp_recv' = rest
                 /\ UNCHANGED <<tcp_state, tcp_ack_num, tcp_pc>>
    /\ UNCHANGED <<rdtVars, variant, codecVars, remetenteVars, tcp_seq_num,
                   tcp_peer_address, tcp_syn_seq, tcp_syns>>

\* time.sleep(0.2) in TIME_WAIT is over: CLOSED, udp_socket.close(), return
close_time_wait(x) ==
    /\ tcp_pc[x] = "time_wait"
    /\ tcp_state' = [tcp_state EXCEPT ![x] = "CLOSED"]
    /\ tcp_pc' = [tcp_pc EXCEPT ![x] = "returned"]
    /\ UNCHANGED <<rdtVars, variant, codecVars, remetenteVars, tcp_seq_num,
                   tcp_ack_num, tcp_peer_address, tcp_recv, tcp_syn_seq,
                   tcp_syns>>

\* the loop of the active path, or the last loop of the passive path, ends
\* at time.time() >= deadline
close_deadline(x) ==
    /\ tcp_pc[x] \in {"close", "last_ack"}
    /\ tcp_state' = [tcp_state EXCEPT ![x] = "CLOSED"]
    /\ tcp_pc' = [tcp_pc EXCEPT ![x] = "returned"]
    /\ UNCHANGED <<rdtVars, variant, codecVars, remetenteVars, tcp_seq_num,
                   tcp_ack_num, tcp_peer_address, tcp_recv, tcp_syn_seq,
                   tcp_syns>>

NextClose ==
    \E x \in Sockets :
        \/ close_call(x)
        \/ close_recvfrom(x)
        \/ close_time_wait(x)
        \/ close_deadline(x)

SpecClose == InitClose /\ [][NextClose]_vars

(***************************************************************************)
(* Properties of the delivered list.                                       *)
(***************************************************************************)
Prefix(k) == SubSeq(msgs, 1, k)

IsPrefix(s, t) == Len(s) <= Len(t) /\ s = SubSeq(t, 1, Len(s))

\* d is m with every element repeated one or more times
RECURSIVE IsRepetitionOf(_, _)
IsRepetitionOf(d, m) ==
    IF d = <<>> THEN m = <<>>
    ELSE IF m = <<>> THEN FALSE
    ELSE /\ d[1] = m[1]
         /\ \/ IsRepetitionOf(Tail(d), Tail(m))
            \/ IsRepetitionOf(Tail(d), m)

\* C4: variant A, lossless non-corrupting channel: the delivered list is the
\* list of the payloads sent so far, in order, none twice, none missing; once
\* the last send has returned it is the whole list passed to send.
C4_PerfectChannelExact ==
    /\ pc = "idle" => delivered = Prefix(returned)
    /\ pc = "wait" => delivered \in {Prefix(returned), Prefix(returned + 1)}

C4_Witness ==
    /\ returned = Len(msgs)
    /\ Len(msgs) >= 2
    /\ msgs[1] # msgs[2]
    /\ delivered = msgs

\* C5: variant A, corrupting lossless channel: when send(p) has returned, p
\* was delivered at least once, and the payloads are first delivered in the
\* order sent (the delivered list is the returned payloads, each one or more
\* times, possibly followed by deliveries of the payload being sent).
C5_AtLeastOnceInOrder ==
    pc = "idle" => IsRepetitionOf(delivered, Prefix(returned))

\* C6: variant A: a DATA packet that arrives intact while the payload of the
\* current send was already delivered (a retransmission after a corrupted
\* ACK) is delivered again and answered with ACK; the duplicate delivery is
\* an ordinary state from which send returns.
C6_DuplicateDeliveredAndAcked ==
    [][\A raw \in BagToSet(net_data) :
          LET info == decode_packet20(raw)
          IN  (/\ net_data' = Consume(net_data, raw)
               /\ info.checksum_ok
               /\ info.type = TYPE_DATA
               /\ Len(delivered) >= returned + 1)
              => /\ delivered' = Append(delivered, info.payload)
                 /\ \E out \in ChannelOutcomes(make_packet20(TYPE_ACK, <<>>),
                                               loss_rate, corrupt_rate) :
                       net_ctrl' = Deliver(net_ctrl, out)]_vars

\* one send, its ACK corrupted once: the payload delivered twice, the send
\* returned
C6_Witness ==
    /\ Len(msgs) = 1
    /\ returned = 1
    /\ pc = "idle"
    /\ faults = 1
    /\ delivered = <<msgs[1], msgs[1]>>

\* C3: variant B, corrupting lossless channel: the delivered list is at all
\* times a prefix of the list passed to send, and is that list once the last
\* send has returned.
C3_ExactlyOnce ==
    /\ IsPrefix(delivered, msgs)
    /\ (pc = "idle" /\ returned = Len(msgs)) => delivered = msgs

\* C1: variant C, channel that loses, corrupts, delays and reorders: the
\* delivered list is at all times a prefix of the list passed to send, and is
\* that list once the last send has returned.
C1_ExactlyOnce ==
    /\ IsPrefix(delivered, msgs)
    /\ (pc = "idle" /\ returned = Len(msgs)) => delivered = msgs

\* C2: variant D, channel that loses, corrupts, delays and reorders: the
\* delivered list is at all times a prefix of the list passed to send, and is
\* that list once the last send has returned.
C2_ExactlyOnce ==
    /\ IsPrefix(delivered, msgs)
    /\ (pc = "idle" /\ returned = Len(msgs)) => delivered = msgs

\* C7: variant C, fair channel: a call to RDT30Sender.send that has started
\* eventually returns.
C7_SendReturns == (pc = "poll") ~> (pc = "idle")

\* C8: variant D, fair channel: a call to GBNSender.send that has started
\* eventually returns (its sequence number leaves the buffer).
C8_SendReturns == (pc = "wait") ~> (pc = "idle" /\ seq \notin DOMAIN send_buffer)

\* C9: variants C and D: every payload whose send has returned has been
\* handed to the receiver's application.
C9_ReturnedWasDelivered ==
    \A k \in 1..returned : \E i \in 1..Len(delivered) : delivered[i] = msgs[k]

\* C10: variant D: at all times 0 <= nextseqnum - base <= N and send_buffer
\* holds at most N packets, and nextseqnum advances (a new DATA packet is
\* transmitted for the first time) only from a state where
\* nextseqnum - base < N.
C10_WindowBounds ==
    /\ [](/\ ~Less(nextseqnum, base)
          /\ ~AtLeast(nextseqnum, base, N + 1)
          /\ Cardinality(DOMAIN send_buffer) <= N)
    /\ [][nextseqnum' # nextseqnum => ~AtLeast(nextseqnum, base, N)]_vars

\* a sender constructed with N = 1 whose call of send raised with its packet
\* buffered, so that the window is full: the next call of send, for the same
\* payload, transmits nothing and waits inside the loop of line 131 while the
\* one packet ever transmitted is on its way to the receiver
C10_Witness ==
    /\ variant = "D"
    /\ N = 1
    /\ pc = "full"
    /\ returned = 0
    /\ base = BigOf(0)
    /\ nextseqnum = BigOf(1)
    /\ DOMAIN send_buffer = {BigOf(0)}
    /\ net_data = SetToBag({send_buffer[BigOf(0)]})
    /\ delivered = <<>>

C13_RoundTrip ==
    (codec_info # <<>> /\ codec_flips = 0)
        => codec_info.checksum_ok /\ SameFields

\* a DATA packet of the 4-byte layout with a sequence number that needs all
\* four bytes and a payload of two bytes, decoded
C13_Witness ==
    /\ codec_info # <<>>
    /\ codec_flips = 0
    /\ codec_args.layout = "gbn"
    /\ codec_args.seq = Big(255, Radix - 1)
    /\ codec_args.payload = <<250, 5>>
    /\ codec_info.checksum_ok

\* C14: a packet of any layout with exactly one byte replaced by its
\* complement decodes with checksum_ok false.
C14_SingleFlipDetected ==
    (codec_info # <<>> /\ codec_flips = 1) => ~codec_info.checksum_ok

\* the low byte of the checksum field of a 1-byte-sequence packet flipped
C14_Witness ==
    /\ codec_info # <<>>
    /\ codec_flips = 1
    /\ codec_args.layout = "21"
    /\ codec_raw # encode(codec_args)
    /\ codec_raw[4] = 255 - encode(codec_args)[4]
    /\ ~codec_info.checksum_ok

\* C15: a packet altered by the channel (one to MaxCorruptions complemented
\* byte positions, repeats allowed) that decodes with checksum_ok true decodes
\* to the kind, sequence number and payload that were encoded.
C15_ValidMeansExact ==
    (codec_info # <<>> /\ codec_flips >= 1 /\ codec_info.checksum_ok)
        => SameFields

\* C16: in all four variants a packet whose checksum is wrong changes no
\* protocol state. Taken by a sender it ends no send and leaves seq, base,
\* nextseqnum and send_buffer as they are; taken by a receiver it is not
\* delivered, leaves expected_seq / expectedseqnum as they are, and the reply
\* passed to the channel is a function of the receiver's state alone.
C16_CorruptedIsNoise ==
    /\ [][\A raw \in BagToSet(net_ctrl) :
              (net_ctrl' = Consume(net_ctrl, raw)
               /\ ~decode_packet(raw).checksum_ok)
              => /\ returned' = returned
                 /\ pc' # "idle"
                 /\ UNCHANGED <<seq, base, nextseqnum, send_buffer>>]_vars
    /\ [][\A raw \in BagToSet(net_data) :
              (net_data' = Consume(net_data, raw)
               /\ ~decode_packet(raw).checksum_ok)
              => /\ UNCHANGED <<delivered, expected_seq, expectedseqnum>>
                 /\ \E out \in ChannelOutcomes(ReplyToCorrupted, loss_rate,
                                               corrupt_rate) :
                       net_ctrl' = Deliver(net_ctrl, out)]_vars

\* variant C: the receiver took a corrupted DATA packet, delivered nothing
\* and answered NAK (its reply to a wrong checksum only); the send goes on
C16_Witness ==
    /\ variant = "C"
    /\ pc = "poll"
    /\ delivered = <<>>
    /\ expected_seq = seq
    /\ make_nak30(expected_seq) \in BagToSet(net_ctrl)

\* C17: receivers of variants B, C and D. A packet taken by the receiver is
\* handed to the application callback exactly when its checksum is right, its
\* kind is DATA and its sequence number is the expected one; the payload is
\* then appended once and the expected sequence number advances by one.
\* Any other packet (corrupted: checksum wrong; already delivered: a DATA
\* packet whose sequence number is not the expected one) leaves the
\* delivered list and the expected sequence number as they are, and nothing
\* but a step of the receiver changes the delivered list.
C17_DeliverOnlyInOrderValid ==
    /\ [][(variant \in {"B", "C", "D"}) =>
          (\A raw \in BagToSet(net_data) :
              net_data' = Consume(net_data, raw) =>
                  (LET info == decode_packet(raw)
                   IN  IF /\ info.checksum_ok
                          /\ info.type = TYPE_DATA
                          /\ info.seq = ExpectedSequence
                       THEN /\ delivered' = Append(delivered, info.payload)
                            /\ ExpectedSequence'
                                   = NextSequence(ExpectedSequence)
                       ELSE /\ delivered' = delivered
                            /\ ExpectedSequence' = ExpectedSequence))]_vars
    /\ [][delivered' # delivered =>
          (\E raw \in BagToSet(net_data) :
              net_data' = Consume(net_data, raw))]_vars

\* variant B: one payload sent, one packet corrupted on the way (the DATA
\* packet, answered NAK, or the ACK, so that the receiver took the DATA
\* packet twice), the payload delivered once
C17_Witness ==
    /\ variant = "B"
    /\ returned = 1
    /\ faults = 1
    /\ delivered = <<msgs[1]>>
    /\ expected_seq = seq

\* C18: a datagram shorter than the fixed header that reaches a receiver's
\* loop or a sender waiting for a response ends neither: at all times the
\* receiver's loop is running and no call to send has ended with an exception.
C18_ShortDatagramDiscarded == receiver_pc = "loop" /\ pc # "raised"

(***************************************************************************)
(* C19, as stated. A call of enviar_dados transmits the packet at most 3    *)
(* times; it returns True exactly when one of the transmissions was         *)
(* answered by an ACK for the sequence number of the call (a datagram that  *)
(* starts with b'ACK' and goes on with that number), and then seq_num has   *)
(* flipped; otherwise it returns False after the third transmission, with   *)
(* seq_num unchanged and esperando_ack false.                               *)
(***************************************************************************)
C19_BoundedRetry ==
    (enviar_pc = "idle" /\ retorno # <<>>) =>
        LET result == retorno[Len(retorno)]
            answered ==
                /\ sendto_calls # <<>>
                /\ startswith(resposta, ACK)
                /\ ack_seq(resposta) = {chamada.seq_num}
        IN  /\ Len(sendto_calls) <= 3
            /\ result <=> answered
            /\ result => seq_num = 1 - chamada.seq_num
            /\ ~result => /\ Len(sendto_calls) = 3
                          /\ seq_num = chamada.seq_num
                          /\ ~esperando_ack

(***************************************************************************)
(* C19, amended. A call of enviar_dados transmits the packet at most 3      *)
(* times, each time with the sequence number of the call. It returns True   *)
(* exactly when one of the transmissions was answered by a datagram that    *)
(* starts with b'ACK' and goes on with text that int reads as the sequence  *)
(* number of the call or does not read as an integer at all (line 194 of    *)
(* the source: a bare b'ACK', b'ACK1x'); an ACK that names another integer  *)
(* is not accepted and uses up an attempt. After True seq_num has flipped   *)
(* and esperando_ack is false. Otherwise the call returns False with        *)
(* seq_num unchanged: before any transmission and with esperando_ack        *)
(* untouched when dados is longer than MAX_DATA_SIZE; at the attempt whose  *)
(* sendto raised an exception, with esperando_ack left true; and in every   *)
(* other case after the third transmission, with esperando_ack false.       *)
(***************************************************************************)
C19_BoundedRetryOrFailure ==
    (enviar_pc = "idle" /\ retorno # <<>>) =>
        LET result == retorno[Len(retorno)]
            oversize == chamada.dados > MAX_DATA_SIZE
            raised == tentativa > Len(sendto_calls)
            answered ==
                /\ sendto_calls # <<>>
                /\ ~raised
                /\ startswith(resposta, ACK)
                /\ \A number \in ack_seq(resposta) :
                      number = chamada.seq_num
        IN  /\ Len(sendto_calls) <= 3
            /\ \A i \in 1..Len(sendto_calls) : sendto_calls[i] = chamada.seq_num
            /\ result <=> answered
            /\ result => seq_num = 1 - chamada.seq_num /\ ~esperando_ack
            /\ ~result =>
                  /\ seq_num = chamada.seq_num
                  /\ IF oversize
                     THEN /\ sendto_calls = <<>>
                          /\ tentativa = 0
                          /\ esperando_ack = chamada.esperando_ack
                     ELSE IF raised
                     THEN /\ Len(sendto_calls) = tentativa - 1
                          /\ esperando_ack
                     ELSE /\ Len(sendto_calls) = 3
                          /\ ~esperando_ack

\* the first call was answered by ACK0 at its second transmission, returned
\* True and flipped seq_num; the second call, after a NAK, ended with False
\* at its second attempt, whose sendto raised, and left esperando_ack true
C19_Witness ==
    /\ enviar_pc = "idle"
    /\ retorno = <<TRUE, FALSE>>
    /\ chamada = [dados |-> MAX_DATA_SIZE, seq_num |-> 1,
                  esperando_ack |-> FALSE]
    /\ sendto_calls = <<1>>
    /\ tentativa = 2
    /\ resposta = NAK
    /\ seq_num = 1
    /\ esperando_ack

(***************************************************************************)
(* C20. With no packet lost, whenever connect has returned (client state    *)
(* ESTABLISHED), accept returns too with the server in state ESTABLISHED,   *)
(* also when a SYN sent again reached the server before the final ACK.      *)
(* connect sends its final ACK once and accept returns only on that ACK:    *)
(* the claim is stated on the pass of accept's loop that takes the final    *)
(* ACK of a client whose connect has returned, which has to return with     *)
(* the state ESTABLISHED. (The deadline of accept may pass before that      *)
(* ACK is taken; such runs are not held against the claim.)                 *)
(***************************************************************************)
C20_HandshakeCompletes ==
    [][(/\ tcp_pc.server = "loop"
        /\ tcp_pc.client = "returned"
        /\ tcp_state.client = "ESTABLISHED"
        /\ tcp_recv.server # <<>>
        /\ tcp_recv'.server = Tail(tcp_recv.server)
        /\ Head(tcp_recv.server)
              = [from |-> "client", seq |-> tcp_seq_num.client,
                 ack |-> tcp_ack_num.client, flags |-> FLAG_ACK])
          => /\ tcp_pc'.server = "returned"
             /\ tcp_state'.server = "ESTABLISHED"]_vars

(***************************************************************************)
(* C21. Whenever close() has returned the state of the socket is CLOSED,    *)
(* on both sides of an established connection, in whatever order the FIN    *)
(* and the ACK of the peer arrive and also when the deadline elapses        *)
(* without them; close() on a socket that is in none of the states          *)
(* ESTABLISHED, CLOSE_WAIT, FIN_WAIT_1, FIN_WAIT_2 sets CLOSED and sends    *)
(* nothing.                                                                 *)
(***************************************************************************)
C21_CloseEndsClosed ==
    /\ [](\A x \in Sockets : tcp_pc[x] = "returned" => tcp_state[x] = "CLOSED")
    /\ [][\A x \in Sockets :
            (/\ tcp_pc[x] = "idle"
             /\ tcp_pc'[x] # "idle"
             /\ tcp_state[x] \notin {"ESTABLISHED", "CLOSE_WAIT",
                                     "FIN_WAIT_1", "FIN_WAIT_2"})
                => /\ tcp_state'[x] = "CLOSED"
                   /\ tcp_pc'[x] = "returned"
                   /\ tcp_recv' = tcp_recv]_vars

\* both sides of an established connection sent their FIN, took the FIN of
\* the other (the client after the ACK of its own FIN) and returned
C21_Witness ==
    /\ tcp_pc = [client |-> "returned", server |-> "returned"]
    /\ tcp_state = [client |-> "CLOSED", server |-> "CLOSED"]
    /\ tcp_seq_num = [client |-> 2, server |-> 2]
    /\ tcp_ack_num = [client |-> 2, server |-> 2]

(***************************************************************************)
(* C22. As stated: while the variant B sender waits, a response with an     *)
(* invalid checksum and a valid ACK or NAK for the other sequence number    *)
(* are discarded without a retransmission of the DATA packet; the packet    *)
(* is retransmitted only on a NAK for the current sequence number or        *)
(* another unrecognized response; seq flips and send returns only on a      *)
(* valid ACK for the current sequence number.                               *)
(***************************************************************************)
C22_StaleDiscarded ==
    [][\A msg \in BagToSet(net_ctrl) :
          (variant = "B" /\ pc = "wait" /\ net_ctrl' = Consume(net_ctrl, msg)) =>
              LET info == decode_packet21(msg)
                  stale == \/ ~info.checksum_ok
                           \/ /\ info.type \in {TYPE_ACK, TYPE_NAK}
                              /\ info.seq # seq
              IN  /\ stale => UNCHANGED <<net_data, seq, pc, returned>>
                  /\ (seq' # seq \/ pc' = "idle") => is_ack21(info, seq)]_vars

(***************************************************************************)
(* C22, amended. While the variant B sender waits, every response that is   *)
(* not a valid ACK for the current sequence number (an invalid checksum, a  *)
(* NAK for either sequence number, an ACK for the other one, any other      *)
(* kind) makes it pass the same DATA packet to the channel again, with seq  *)
(* unchanged and send still waiting; on a valid ACK for the current         *)
(* sequence number nothing is transmitted, seq flips and send returns.      *)
(***************************************************************************)
C22_EveryOtherResponseRetransmits ==
    [][\A msg \in BagToSet(net_ctrl) :
          (variant = "B" /\ pc = "wait" /\ net_ctrl' = Consume(net_ctrl, msg)) =>
              LET info == decode_packet21(msg)
              IN  IF info.checksum_ok /\ info.type = TYPE_ACK /\ info.seq = seq
                  THEN /\ seq' = 1 - seq
                       /\ pc' = "idle"
                       /\ returned' = returned + 1
                       /\ net_data' = net_data
                  ELSE /\ UNCHANGED <<seq, pc, returned, pkt>>
                       /\ \E out \in ChannelOutcomes(pkt, FALSE, TRUE) :
                             net_data' = Deliver(net_data, out)]_vars

\* the first payload was delivered, the reply to it was taken by the sender
\* with an invalid checksum, and the DATA packet is in flight again
C22_Witness ==
    /\ variant = "B"
    /\ pc = "wait"
    /\ returned = 0
    /\ delivered = <<msgs[1]>>
    /\ net_ctrl = EmptyBag
    /\ faults = 1
    /\ net_data = SetToBag({pkt})

(***************************************************************************)
(* C23. When the variant B receiver takes a DATA packet with a valid        *)
(* checksum whose sequence number differs from expected_seq, it delivers    *)
(* nothing, passes to the channel one ACK carrying 1 - expected_seq, and    *)
(* leaves expected_seq unchanged.                                           *)
(***************************************************************************)
C23_DuplicateAckedNotDelivered ==
    [][\A raw \in BagToSet(net_data) :
          (/\ variant = "B"
           /\ net_data' = Consume(net_data, raw)
           /\ decode_packet21(raw).checksum_ok
           /\ decode_packet21(raw).type = TYPE_DATA
           /\ decode_packet21(raw).seq # expected_seq)
              => /\ delivered' = delivered
                 /\ expected_seq' = expected_seq
                 /\ net_ctrl' # net_ctrl
                 /\ \E out \in ChannelOutcomes(
                                  make_packet21(TYPE_ACK, 1 - expected_seq, <<>>),
                                  FALSE, TRUE) :
                       net_ctrl' = Deliver(net_ctrl, out)]_vars

\* the ACK of the first payload reached the sender corrupted, the sender
\* sent the DATA packet again, and the receiver has answered the duplicate
\* with the ACK of the sequence number before expected_seq
C23_Witness ==
    /\ variant = "B"
    /\ pc = "wait"
    /\ returned = 0
    /\ delivered = <<msgs[1]>>
    /\ expected_seq = 1 - seq
    /\ net_data = EmptyBag
    /\ faults >= 1
    /\ net_ctrl = SetToBag({make_packet21(TYPE_ACK, seq, <<>>)})

(***************************************************************************)
(* C24. The variant A receiver delivers the payload of every packet it      *)
(* takes with a valid checksum, whatever its kind, and answers it with one  *)
(* ACK; it answers every packet with an invalid checksum with one NAK and   *)
(* delivers nothing: every packet taken produces exactly one reply.         *)
(***************************************************************************)
C24_EveryPacketAnswered ==
    [][\A raw \in BagToSet(net_data) :
          (variant = "A" /\ net_data' = Consume(net_data, raw)) =>
              LET info == decode_packet20(raw)
                  reply == make_packet20(IF info.checksum_ok THEN TYPE_ACK
                                         ELSE TYPE_NAK, <<>>)
              IN  /\ delivered' = IF info.checksum_ok
                                  THEN Append(delivered, info.payload)
                                  ELSE delivered
                  /\ net_ctrl' # net_ctrl
                  /\ \E out \in ChannelOutcomes(reply, FALSE, TRUE) :
                        net_ctrl' = Deliver(net_ctrl, out)]_vars

(***************************************************************************)
(* C25. While the variant C sender waits in send: a response with an        *)
(* invalid checksum, a NAK, or an ACK for another sequence number causes    *)
(* no transmission and no change of seq; the DATA packet is passed to the   *)
(* channel again, the same bytes, exactly when the sender finds the timer   *)
(* expired, once per expiry handled, and at no other step of the wait. (A   *)
(* step of the sender runs from one return of recvfrom to the next call:    *)
(* when the timer expired while the sender was inside recvfrom, the step    *)
(* that takes a response it does not accept goes on to handle the expiry.)  *)
(***************************************************************************)
C25_OnlyTheTimerRetransmits ==
    [][(variant = "C" /\ pc = "poll") =>
          /\ \A msg \in BagToSet(net_ctrl) :
                net_ctrl' = Consume(net_ctrl, msg) =>
                    LET info == decode_packet30(msg)
                    IN  IF /\ info.checksum_ok
                           /\ info.type = TYPE_ACK
                           /\ info.seq = seq
                        THEN /\ seq' = (seq + 1) % 256
                             /\ pc' = "idle"
                             /\ net_data' = net_data
                        ELSE /\ UNCHANGED <<seq, pc, returned, pkt>>
                             /\ ~timeout_event
                                   => UNCHANGED <<net_data, timer,
                                                  timeout_event>>
          /\ (timeout_event /\ ~timeout_event')
                => /\ UNCHANGED <<pc, pkt, seq, returned>>
                   /\ timer' = "armed"
                   /\ \E out \in ChannelOutcomes(pkt, TRUE, TRUE) :
                         net_data' = Deliver(net_data, out)
          /\ (/\ net_data' # net_data
              /\ \A raw \in BagToSet(net_data) :
                    net_data' # Consume(net_data, raw))
                => timeout_event /\ ~timeout_event']_vars

\* the first transmission of the DATA packet was lost or arrived corrupted,
\* nothing was delivered, and after the timer expired the packet is in
\* flight again with the timer armed anew
C25_Witness ==
    /\ variant = "C"
    /\ pc = "poll"
    /\ timer = "armed"
    /\ ~timeout_event
    /\ faults = 1
    /\ delivered = <<>>
    /\ net_ctrl = EmptyBag
    /\ net_data = SetToBag({pkt})

(***************************************************************************)
(* C26. When the variant C receiver takes a corrupted packet, as when it    *)
(* takes a DATA packet out of order, it delivers nothing, leaves            *)
(* expected_seq unchanged and passes to the channel the ACK carrying        *)
(* (expected_seq - 1) mod 256; so it never passes a NAK to the channel.     *)
(***************************************************************************)
C26_CorruptedAnsweredWithLastAck ==
    [][\A raw \in BagToSet(net_data) :
          (/\ variant = "C"
           /\ net_data' = Consume(net_data, raw)
           /\ \/ ~decode_packet30(raw).checksum_ok
              \/ /\ decode_packet30(raw).type = TYPE_DATA
                 /\ decode_packet30(raw).seq # expected_seq)
              => /\ delivered' = delivered
                 /\ expected_seq' = expected_seq
                 /\ \E out \in ChannelOutcomes(
                                  make_packet30(TYPE_ACK,
                                                (expected_seq - 1) % 256, <<>>),
                                  TRUE, TRUE) :
                       net_ctrl' = Deliver(net_ctrl, out)]_vars

\* C27: the variant D receiver never buffers and never skips. A valid DATA
\* packet whose sequence number is not expectedseqnum, ahead of it or behind
\* it, is answered with the ACK of (expectedseqnum - 1) mod 2^32, delivers
\* nothing and leaves expectedseqnum alone; expectedseqnum changes only by
\* +1 mod 2^32, on a valid DATA packet carrying expectedseqnum, whose payload
\* is delivered in that step and which is answered with the ACK of its
\* sequence number; and nothing is delivered in any other step, so that a
\* packet refused is not delivered later either.
C27_NoBufferNoSkip ==
    [][/\ \A raw \in BagToSet(net_data) :
             (/\ variant = "D"
              /\ net_data' = Consume(net_data, raw)
              /\ decode_packetGBN(raw).checksum_ok
              /\ decode_packetGBN(raw).type = TYPE_DATA
              /\ decode_packetGBN(raw).seq # expectedseqnum)
                 => /\ delivered' = delivered
                    /\ expectedseqnum' = expectedseqnum
                    /\ \E out \in ChannelOutcomes(
                                     make_ackGBN(Mask32(Dec(expectedseqnum))),
                                     TRUE, TRUE) :
                          net_ctrl' = Deliver(net_ctrl, out)
       /\ (variant = "D"
              /\ (expectedseqnum' # expectedseqnum \/ delivered' # delivered))
             => \E raw \in BagToSet(net_data) :
                    /\ net_data' = Consume(net_data, raw)
                    /\ decode_packetGBN(raw).checksum_ok
                    /\ decode_packetGBN(raw).type = TYPE_DATA
                    /\ decode_packetGBN(raw).seq = expectedseqnum
                    /\ expectedseqnum' = Mask32(Inc(expectedseqnum))
                    /\ delivered'
                          = Append(delivered, decode_packetGBN(raw).payload)
                    /\ \E out \in ChannelOutcomes(
                                     make_ackGBN(decode_packetGBN(raw).seq),
                                     TRUE, TRUE) :
                          net_ctrl' = Deliver(net_ctrl, out)]_vars

\* the receiver delivered the packet it expected and afterwards refused the
\* same packet, sent again on a timeout and arrived intact (the channel did
\* nothing to any packet): the ACK of the sequence number before the
\* expected one is in flight twice
C27_Witness ==
    /\ variant = "D"
    /\ Len(delivered) = 1
    /\ expectedseqnum = Inc(base)
    /\ nextseqnum = Inc(base)
    /\ faults = 0
    /\ CopiesIn(make_ackGBN(Mask32(Dec(expectedseqnum))), net_ctrl) = 2

\* C28: when the variant D sender takes an ACK with a valid checksum whose
\* sequence number s satisfies base <= s < nextseqnum, base becomes s + 1,
\* the buffered packets with sequence number <= s and only those are removed,
\* the keys left are exactly the sequence numbers of [base, nextseqnum), and
\* the timer is cancelled if base = nextseqnum and restarted otherwise.
C28_CumulativeAck ==
    [][\A raw \in BagToSet(net_ctrl) :
          (/\ variant = "D"
           /\ net_ctrl' = Consume(net_ctrl, raw)
           /\ Len(raw) >= HeaderSize("gbn")
           /\ decode_packetGBN(raw).checksum_ok
           /\ decode_packetGBN(raw).type = TYPE_ACK
           /\ ~Less(decode_packetGBN(raw).seq, base)
           /\ Less(decode_packetGBN(raw).seq, nextseqnum))
              => /\ base' = Inc(decode_packetGBN(raw).seq)
                 /\ nextseqnum' = nextseqnum
                 /\ DOMAIN send_buffer'
                       = {s \in DOMAIN send_buffer :
                             Less(decode_packetGBN(raw).seq, s)}
                 /\ \A s \in DOMAIN send_buffer' :
                       /\ ~Less(s, base') /\ Less(s, nextseqnum')
                       /\ send_buffer'[s] = send_buffer[s]
                 /\ AtLeast(nextseqnum', base',
                            Cardinality(DOMAIN send_buffer'))
                 /\ ~AtLeast(nextseqnum', base',
                             Cardinality(DOMAIN send_buffer') + 1)
                 /\ IF base' = nextseqnum'
                    THEN timer' # "armed"
                    ELSE timer' = "armed" /\ ~timeout_event']_vars

\* two packets were buffered, the one of a call of send that raised and the
\* one of the call that followed it, and the sender (N = 4) took the ACK of
\* the older one alone: base moved up by one, the older packet left the
\* buffer and the newer one stays, send goes on waiting and the timer was
\* restarted
C28_Witness ==
    /\ variant = "D"
    /\ N = DefaultN
    /\ pc = "wait"
    /\ returned = 0
    /\ base = BigOf(1)
    /\ nextseqnum = BigOf(2)
    /\ DOMAIN send_buffer = {BigOf(1)}
    /\ channel_sends = <<send_buffer[BigOf(1)]>>
    /\ net_ctrl = EmptyBag
    /\ timer = "armed"
    /\ ~timeout_event

\* C29: when the variant D sender takes an ACK whose checksum is invalid, an
\* ACK whose sequence number is outside [base, nextseqnum), or a packet that
\* is not an ACK, then base, nextseqnum, the buffered packets and the timer
\* are what they were and nothing is transmitted; if the timer had expired
\* while the sender was inside recvfrom, the loop of send goes on to handle
\* the expiry, which transmits what the buffer holds and arms the timer.
C29_OtherPacketsIgnored ==
    [][\A raw \in BagToSet(net_ctrl) :
          (/\ variant = "D"
           /\ net_ctrl' = Consume(net_ctrl, raw)
           /\ \/ ~decode_packetGBN(raw).checksum_ok
              \/ decode_packetGBN(raw).type # TYPE_ACK
              \/ Less(decode_packetGBN(raw).seq, base)
              \/ ~Less(decode_packetGBN(raw).seq, nextseqnum))
              => /\ base' = base
                 /\ nextseqnum' = nextseqnum
                 /\ send_buffer' = send_buffer
                 /\ IF pc = "wait" /\ timeout_event
                    THEN /\ ~timeout_event'
                         /\ timer' = "armed"
                         /\ Len(channel_sends')
                               = Cardinality(DOMAIN send_buffer)
                         /\ \A i \in 1..Len(channel_sends') :
                               \E k \in DOMAIN send_buffer :
                                   channel_sends'[i] = send_buffer[k]
                    ELSE /\ timer' = timer
                         /\ timeout_event' = timeout_event
                         /\ net_data' = net_data
                         /\ channel_sends' = channel_sends]_vars

\* the payload was delivered and the channel lost or corrupted two packets,
\* the ACK of the payload among them; whatever reached the sender (a
\* corrupted ACK, the ACK of the sequence number before base sent for a
\* corrupted DATA packet) it has taken: its packet is still buffered, nothing
\* is in flight and the timer runs
C29_Witness ==
    /\ variant = "D"
    /\ pc = "wait"
    /\ faults = 2
    /\ delivered # <<>>
    /\ net_ctrl = EmptyBag
    /\ net_data = EmptyBag
    /\ DOMAIN send_buffer = {base}
    /\ nextseqnum = Inc(base)
    /\ timer = "armed"

\* C30: base and nextseqnum of the variant D sender live in the 32-bit space
\* of the sequence number on the wire. When the sender, waiting in send for
\* the packet it sent last, takes a valid ACK carrying the sequence number of
\* that packet, the packet leaves the buffer and send returns; so also when
\* the packet is the one sent with sequence number 0 after 2^32 - 1.
C30_AckRecognisedAcrossWrap ==
    [][\A raw \in BagToSet(net_ctrl) :
          (/\ variant = "D"
           /\ pc = "wait"
           /\ seq \in DOMAIN send_buffer
           /\ net_ctrl' = Consume(net_ctrl, raw)
           /\ decode_packetGBN(raw).checksum_ok
           /\ decode_packetGBN(raw).type = TYPE_ACK
           /\ decode_packetGBN(raw).seq = seq)
              => /\ seq \notin DOMAIN send_buffer'
                 /\ returned' = returned + 1
                 /\ pc' = "idle"]_vars

(***************************************************************************)
(* C31. Senders of variants C and D, the thread of the Timer interleaved    *)
(* with the loop of send: the thread of a timer that was stopped (cancelled *)
(* or replaced by a timer armed after it) does not set the timeout flag,    *)
(* and the sender retransmits on a timeout only when the timer it armed     *)
(* last, for the packet outstanding, has expired.                          *)
(***************************************************************************)
C31_StoppedTimerStaysSilent ==
    [][/\ (/\ \/ timer = "cancelled_called" /\ timer' = "cancelled"
              \/ replaced_timers'.called < replaced_timers.called
           /\ ~timeout_event)
              => ~timeout_event'
       /\ (/\ variant \in {"C", "D"}
           /\ pc \in {"poll", "wait"}
           /\ pc' = pc
           /\ timeout_event
           /\ ~timeout_event')
              => timer = "fired"]_vars

(***************************************************************************)
(* C32. SimpleTCPSocket.close, passive path: a socket of an established     *)
(* connection that has the FIN of its peer in its socket before it has      *)
(* sent a FIN of its own leaves ESTABLISHED for CLOSE_WAIT, answering the   *)
(* FIN with an ACK, and only then sends its FIN (LAST_ACK).                 *)
(***************************************************************************)
C32_PassiveClose ==
    [][\A x \in Sockets :
          (/\ tcp_state[x] = "ESTABLISHED"
           /\ \E i \in 1..Len(tcp_recv[x]) :
                 /\ tcp_recv[x][i].from = tcp_peer_address[x]
                 /\ HasFlag(tcp_recv[x][i].flags, FLAG_FIN)
           /\ tcp_state'[x] # "ESTABLISHED")
              => /\ tcp_state'[x] = "CLOSE_WAIT"
                 /\ \E i \in 1..Len(tcp_recv'[Peer(x)]) :
                       /\ tcp_recv'[Peer(x)][i].from = x
                       /\ HasFlag(tcp_recv'[Peer(x)][i].flags, FLAG_ACK)]_vars

\* C33: whenever GBNSender.send has returned (and the next call has not
\* started) the buffer is empty and base = nextseqnum = the number of
\* payloads sent so far, those before the run included; so a caller that
\* calls send sequentially never enters the wait for a full window, whatever
\* N is, and nextseqnum - base is never more than 1.
C33_SendReturnsWithEmptyWindow ==
    variant = "D" =>
        /\ pc = "idle" =>
              /\ send_buffer = <<>>
              /\ base = nextseqnum
              /\ \E n \in StartSeqs : base = BigOf(n + returned)
        /\ pc # "full"
        /\ ~AtLeast(nextseqnum, base, 2)

\* every send has returned, the sender constructed with N = 1, after two
\* packets were lost on the way and retransmitted on a timeout
C33_Witness ==
    /\ variant = "D"
    /\ N = 1
    /\ pc = "idle"
    /\ returned = MaxMsgs
    /\ Len(delivered) = MaxMsgs
    /\ faults = MaxFaults
    /\ timer = "cancelled"

\* C34: variants A and B over a channel that loses nothing. At every instant
\* at most one datagram, a DATA packet or a reply, is in flight between
\* sender and receiver; so when the sender takes a reply it is the reply to
\* its last transmission, no other one being in flight.
C34_OneDatagramInFlight ==
    variant \in {"A", "B"} =>
        BagCardinality(net_data) + BagCardinality(net_ctrl) <= 1

\* variant B: the DATA packet was transmitted at least twice (a packet
\* arrived corrupted) and the payload is delivered; the reply to the last
\* transmission is the one datagram in flight
C34_Witness ==
    /\ variant = "B"
    /\ pc = "wait"
    /\ faults = MaxFaults
    /\ delivered # <<>>
    /\ net_data = EmptyBag
    /\ BagCardinality(net_ctrl) = 1

\* C35: variant B over a channel that loses nothing and does not corrupt
\* forever. Every call of RDT21Sender.send returns in the end; in
\* particular no state is reached in which the sender waits in recvfrom for
\* a reply and the receiver waits in recvfrom for a packet while no datagram
\* is in flight (from such a state no step is possible, and the call never
\* returns).
C35_NeverBothWaiting ==
    variant = "B" =>
        ~(/\ pc = "wait"
          /\ receiver_pc = "loop"
          /\ net_data = EmptyBag
          /\ net_ctrl = EmptyBag)

(***************************************************************************)
(* C36. Variants A and B have no timer. The sender passes the DATA packet   *)
(* to the channel when send starts and afterwards only in a step in which   *)
(* it takes a datagram from its socket. Hence once a DATA packet or the     *)
(* reply to it is lost (the sender waits, nothing is in flight) the call    *)
(* never returns and nothing is transmitted any more.                       *)
(***************************************************************************)
\* the sender waits in recvfrom and no datagram is in flight
SenderStranded ==
    /\ variant \in {"A", "B"}
    /\ pc = "wait"
    /\ net_data = EmptyBag
    /\ net_ctrl = EmptyBag

C36_NoSpontaneousTransmission ==
    [][/\ (/\ variant \in {"A", "B"}
           /\ net_data' # net_data \/ faults' # faults
           /\ ~\E raw \in BagToSet(net_data) :
                  net_data' = Consume(net_data, raw))
              => \/ pc = "idle" /\ pc' = "wait"
                 \/ \E msg \in BagToSet(net_ctrl) :
                       net_ctrl' = Consume(net_ctrl, msg)
       /\ SenderStranded
              => /\ SenderStranded'
                 /\ returned' = returned
                 /\ faults' = faults]_vars

\* variant A: the payload was delivered and the ACK was lost; the sender
\* waits for it with nothing in flight
C36_Witness ==
    /\ SenderStranded
    /\ variant = "A"
    /\ returned = 0
    /\ delivered = <<msgs[1]>>
    /\ faults = 1
====
